---- MODULE Spec2Model ----
(***************************************************************************)
(* State-machine model of uploader.Run (internal/uploader/uploader.go):    *)
(* the setup, the sequential album loop, and inside it the per-album       *)
(* upload pipeline of one producer goroutine, workerCount worker           *)
(* goroutines and the result consumer (the main goroutine), followed by    *)
(* the batched add-to-album requests.  moveFileToIgnore is one step of a   *)
(* worker in that model and is modelled statement by statement in          *)
(* MoveSpec; the directory walk that fills the album's file list is one    *)
(* step of the main goroutine and is modelled call by call in WalkSpec.    *)
(*                                                                         *)
(* The two channels are unbuffered, so a send and its receive are one      *)
(* joint step of the sender and the receiver.  The remote service, the     *)
(* file system and the owner of the context are the environment: whether   *)
(* a stat, an upload, a rename or a link request succeeds is chosen by it, *)
(* and it may cancel the context.  fstate records what Run itself did to   *)
(* each file of the album being processed; no statement of Run touches a   *)
(* file of another album.                                                  *)
(***************************************************************************)
EXTENDS Integers, Sequences, FiniteSets, Bags, TLC

\* ---- bounds of the model ------------------------------------------------
NumAlbums == 2      \* entries os.ReadDir returns for the root
MaxFiles == 2       \* media files found in one album folder
MaxWorkers == 2     \* largest configured --workers value
MaxBatch == 2       \* largest configured --batch value
MaxAsset == 2       \* distinct asset ids the remote may return
MaxLinkFiles == 4   \* files of the album whose link phase LinkSpec starts from
MaxLinkBatch == 3   \* largest --batch value LinkSpec starts from
MaxNodes == 3       \* files and directories beneath the album folder WalkSpec walks
MaxSize == 2        \* largest file size (in bytes) SortSpec starts from
MaxTicks == 2       \* renders of the ticker counted after Run has returned

FileIdx == 1..MaxFiles
WorkerIdx == 1..MaxWorkers
AssetIds == 1..MaxAsset

VARIABLES
    optAPIKey,      \* opt.APIKey != ""
    optRoot,        \* opt.Root != ""
    optWorkers,     \* opt.Workers
    optBatchSize,   \* opt.BatchSize
    optChecksum,    \* opt.Checksum
    optDeep,        \* opt.Deep
    optSmallestFirst, \* opt.SmallestFirst
    fileSizes,      \* the sizes the media files under the root have
    optTUI,         \* opt.TUI
    optTUIAuto,     \* opt.TUIAuto
    isTTY,          \* what isTTY() returns: stdout is a terminal
    tuiEnabled,     \* tuiEnabled (fixed before the album loop)
    entries,        \* what os.ReadDir(opt.Root) returns: name and IsDir per entry
    runErr,         \* what Run has returned: "none" while running and for nil
    listSent,       \* the list-albums request has been sent
    skipped,        \* albums given up before their scan was complete
    mv,             \* position and locals of each worker's moveFileToIgnore call
    tree,           \* the album's folder in the parking tree: what is at each name
    tree0,          \* what that folder held when the album's pipeline started
    cancelled,      \* ctx.Done() is closed
    album,          \* index of the entry the album loop is at
    mpc,            \* position of the main goroutine
    files,          \* files: the album's scanned file list
    fstate,         \* where Run left each file of the album: "orig" or "parked"
    finfo,          \* size and path of each file of the album (the path as its
                    \* rank among the album's paths in string order)
    workerCount,    \* workerCount
    wg,             \* wg: workers that have not called Done
    jobsClosed,     \* close(jobs) happened
    resultsClosed,  \* close(results) happened
    ppc,            \* position of the producer goroutine
    pidx,           \* producer's loop index i (1-based)
    wpc,            \* position of each worker goroutine
    wjob,           \* job held by each worker (index into the album, 0 = none)
    wres,           \* result the worker is about to send
    completed,      \* completed
    uploadErrors,   \* uploadErrors
    uploadedIDs,    \* uploadedIDs
    uploadedBytes,  \* uploadedBytes
    chunks,         \* chunk(uploadedIDs, opt.BatchSize), fixed when the range starts
    lidx,           \* position of the link loop in chunks (1-based)
    linkReqs,       \* link requests sent for this album: <<ids, ok>>
    tui,            \* the fields of tuiState (but the two time stamps)
    log,            \* events logged for this album, by kind
    hist,           \* observation record per file of the album (not program state)
    wtree,          \* the album folder as filepath.WalkDir meets it, in walk order
    widx,           \* the node walkFn is called for next
    wfiles,         \* files, while walkFn appends to it
    wstat,          \* "walking", "done" (WalkDir returned nil) or "failed"
    tuiLock,        \* the goroutine that holds tui's mutex (NoG: none)
    lk,             \* per goroutine: the section of tui accesses it is in
    remoteAlbums,   \* the names of the albums the server has when the run starts
    albums,         \* albums: the name-to-id index
    albumID,        \* albumID of the loop body
    listReqs,       \* list-albums requests sent so far
    createReqs,     \* names of the create-album requests sent so far
    ignoreDirs,     \* names of the folders whose parking directory was made
    tkpc,           \* the ticker goroutine: "off", "select" or "stopped"
    ticks           \* renders the ticker made after Run returned (capped)

vars == <<optAPIKey, optRoot, optWorkers, optBatchSize, optChecksum, tuiEnabled,
          entries, runErr, listSent, skipped, mv, tree, tree0, cancelled, album,
          mpc, files,
          fstate, workerCount, wg, jobsClosed, resultsClosed, ppc, pidx, wpc,
          wjob, wres, completed, uploadErrors, uploadedIDs, chunks, lidx,
          linkReqs, tui, log, hist, optDeep, wtree, widx, wfiles, wstat,
          optSmallestFirst, fileSizes, finfo, optTUI, optTUIAuto, isTTY,
          uploadedBytes, tuiLock, lk, remoteAlbums, albums, albumID, listReqs,
          createReqs, ignoreDirs, tkpc, ticks>>

cfgVars == <<optAPIKey, optRoot, optWorkers, optBatchSize, optChecksum, optDeep,
             optSmallestFirst, optTUI, optTUIAuto, isTTY, tuiEnabled, entries,
             fileSizes, remoteAlbums>>
walkVars == <<wtree, widx, wfiles, wstat>>
lockVars == <<tuiLock, lk>>
idxVars == <<albums, listReqs, createReqs, ignoreDirs>>
tickVars == <<tkpc, ticks>>
runVars == <<runErr, listSent, skipped>>
mvVars == <<mv, tree, tree0>>
pipeVars == <<workerCount, wg, jobsClosed, resultsClosed, ppc, pidx, wpc, wjob, wres>>
consVars == <<completed, uploadErrors, uploadedIDs, uploadedBytes>>
linkVars == <<chunks, lidx, linkReqs>>

NoRes == [err |-> FALSE, id |-> 0, dup |-> FALSE]

NoHist == [sortErr |-> FALSE, dispatched |-> 0, late |-> FALSE, sumErr |-> FALSE, upCalls |-> 0,
           up |-> "none", upId |-> 0, mvCalls |-> 0, mvFailLogged |-> FALSE,
           nres |-> 0, resErr |-> FALSE]

NoLog == [albumFailed |-> 0, moveFailed |-> 0, uploadFailed |-> 0, linkFailed |-> 0,
          noSuccess |-> 0, added |-> 0]

\* tui := &tuiState{globalStart: time.Now()}: every other field zero
NoTui == [albumName |-> "", albumTotal |-> 0, albumDone |-> 0, albumBytes |-> 0,
          albumTotalBytes |-> 0, globalAlbums |-> 0, globalFiles |-> 0,
          globalDup |-> 0, globalFailed |-> 0, globalMovedFail |-> 0,
          globalBytes |-> 0]

\* an error value: nil, or what errors.As and err.Error() show of it (errno 0:
\* no syscall.Errno in the chain; inUse: the message contains "being used
\* by another process")
Nil == [set |-> FALSE, errno |-> 0, inUse |-> FALSE]

Err(n, u) == [set |-> TRUE, errno |-> n, inUse |-> u]

\* a worker that is not inside moveFileToIgnore
NoMv == [pc |-> "idle", dst |-> "none", attempt |-> 0, lastErr |-> Nil, err |-> Nil,
         tries |-> 0, waits |-> <<>>]

\* the names moveFileToIgnore can give file i in the parking tree: the
\* computed destination and the timestamp-suffixed one
TreeNames == {"dst", "sfx"} \X FileIdx

EmptyTree == [n \in TreeNames |-> "free"]

FileInfo(size, rank) == [size |-> size, rank |-> rank]

NoInfo == [i \in FileIdx |-> FileInfo(0, 0)]

\* ---- pure helpers ---------------------------------------------------------

\* in[i:j] of Go, with 0-based half-open bounds
Slice(in, i, j) == SubSeq(in, i + 1, j)

\* variant of chunkFrom: the loop stops when less than a full batch is left
RECURSIVE chunkFrom_short(_, _, _)
chunkFrom_short(in, n, i) ==
    IF i + n <= Len(in)
    THEN <<Slice(in, i, i + n)>> \o chunkFrom_short(in, n, i + n)
    ELSE <<>>

RECURSIVE chunkFrom(_, _, _)
chunkFrom(in, n, i) ==
    IF i < Len(in)
    THEN LET j == IF i + n > Len(in) THEN Len(in) ELSE i + n
         IN  <<Slice(in, i, j)>> \o chunkFrom(in, n, j)
    ELSE <<>>

\* variant of chunk: a size below 1 is taken as 1
chunk_floorOne(in, n) == chunkFrom(in, IF n <= 0 THEN 1 ELSE n, 0)

chunk(in, n) == IF n <= 0 THEN <<in>> ELSE chunkFrom(in, n, 0)

\* variant of clampWorkers: a worker count below 1 is not raised to 1
clampWorkers_noFloor(w, n) == IF w > n THEN n ELSE w

clampWorkers(w, n) ==
    LET w1 == IF w < 1 THEN 1 ELSE w
    IN  IF w1 > n THEN n ELSE w1

\* variant of less: files of equal size are not ordered by path
less_noTie(info, err, a, b) ==
    IF err[a] /\ err[b] THEN info[a].rank < info[b].rank
    ELSE IF err[a] THEN FALSE
    ELSE IF err[b] THEN TRUE
    ELSE info[a].size < info[b].size

\* the comparator handed to sort.Slice, for files a and b: err[f] is
\* whether os.Stat(f) fails while the list is sorted
less(info, err, a, b) ==
    IF err[a] /\ err[b] THEN info[a].rank < info[b].rank
    ELSE IF err[a] THEN FALSE
    ELSE IF err[b] THEN TRUE
    ELSE IF info[a].size = info[b].size THEN info[a].rank < info[b].rank
    ELSE info[a].size < info[b].size

\* x put into the sorted list s, after every element that is not above it
RECURSIVE insertSorted(_, _, _, _)
insertSorted(info, err, s, x) ==
    IF s = <<>> THEN <<x>>
    ELSE IF less(info, err, x, Head(s)) THEN <<x>> \o s
    ELSE <<Head(s)>> \o insertSorted(info, err, Tail(s), x)

\* sort.Slice(files, less): an insertion sort (the one sort.Slice runs on
\* up to 12 elements)
RECURSIVE sortSlice(_, _, _)
sortSlice(info, err, fs) ==
    IF fs = <<>> THEN <<>>
    ELSE insertSorted(info, err, sortSlice(info, err, SubSeq(fs, 1, Len(fs) - 1)),
                      fs[Len(fs)])

\* ---- the renderer mode ----------------------------------------------------

\* variant of selectTui: without a terminal the mode is quiet
selectTui_ttyOnly(tuiOpt, auto, tty) == tty /\ (auto \/ tuiOpt)

\* tuiEnabled := opt.TUI; if opt.TUIAuto { tuiEnabled = isTTY() }.  (noANSI,
\* forced on without a terminal, only picks how the status line is
\* redrawn in live mode.)
selectTui(tuiOpt, auto, tty) == IF auto THEN tty ELSE tuiOpt

\* the first statements of Run
SelectRenderer == tuiEnabled = selectTui(optTUI, optTUIAuto, isTTY)

\* quiet mode asked for, on a terminal
QuietOptions ==
    /\ optTUI = FALSE
    /\ optTUIAuto = FALSE
    /\ isTTY = TRUE
    /\ SelectRenderer

\* ---- the entries of the root ----------------------------------------------

\* opt.IgnoreDir
IgnoreDir == "ignore"

\* folder names that sort before and after IgnoreDir
NamesBefore == <<"a", "b", "c", "d">>
NamesAfter == <<"w", "x", "y", "z">>

\* os.ReadDir returns the entries sorted by name: NumAlbums entries, the
\* p-th of them named IgnoreDir (none for p = 0), entry k a directory iff
\* dir[k]
RootEntries(p, dir) ==
    [k \in 1..NumAlbums |->
        [name |-> IF k = p THEN IgnoreDir
                  ELSE IF p # 0 /\ k > p THEN NamesAfter[k] ELSE NamesBefore[k],
         isDir |-> dir[k]]]

\* the same names in upper case
NamesBeforeUpper == <<"A", "B", "C", "D">>
NamesAfterUpper == <<"W", "X", "Y", "Z">>

\* strings.ToUpper of a name of the root
UpperOf(name) ==
    IF \E k \in DOMAIN NamesBefore : NamesBefore[k] = name
    THEN NamesBeforeUpper[CHOOSE k \in DOMAIN NamesBefore : NamesBefore[k] = name]
    ELSE IF \E k \in DOMAIN NamesAfter : NamesAfter[k] = name
    THEN NamesAfterUpper[CHOOSE k \in DOMAIN NamesAfter : NamesAfter[k] = name]
    ELSE "IGNORE"

\* the album names the model tells apart: the names of the root entries and
\* the names that differ from them in case only
AlbumKeys ==
    {entries[k].name : k \in DOMAIN entries}
    \cup {UpperOf(entries[k].name) : k \in DOMAIN entries}

\* album ids: none, the id of the album the server lists under a name, the
\* id the server gives the album created under a name
NoAlbum == <<"none", "">>
ListedId(name) == <<"listed", name>>
CreatedId(name) == <<"created", name>>

\* the map getAllAlbums builds from the server's answer
ListedIndex == [k \in AlbumKeys |-> IF k \in remoteAlbums THEN ListedId(k) ELSE NoAlbum]

\* variant of IsAlbumEntry: the parking directory is not recognised
IsAlbumEntry_noIgnore(e) == e.isDir

\* the loop body goes past its two leading `continue`s: the entry is a
\* directory and is not named opt.IgnoreDir
IsAlbumEntry(e) == e.isDir /\ e.name # IgnoreDir

\* index of the first entry from k on that the loop body does not skip,
\* Len(entries) + 1 when there is none
RECURSIVE NextAlbumFrom(_)
NextAlbumFrom(k) ==
    IF k > Len(entries) THEN Len(entries) + 1
    ELSE IF IsAlbumEntry(entries[k]) THEN k
    ELSE NextAlbumFrom(k + 1)

\* ---- initial state: Run is entered ----------------------------------------
\* (every opt.Workers < 1 runs as opt.Workers = 1, see clampWorkers, and
\* every opt.BatchSize < 1 as one batch, see chunk)

\* no walk is modelled call by call
WalkOff ==
    /\ wtree = <<>>
    /\ widx = 0
    /\ wfiles = <<>>
    /\ wstat = "off"

\* the goroutines of a run in live mode: main (album loop and result
\* consumer), the ticker of the status line, the workers of the album
Goroutines ==
    {<<"main", 0>>, <<"ticker", 0>>} \cup {<<"worker", w>> : w \in WorkerIdx}

NoG == <<"none", 0>>

OutOfSection == [site |-> "none", pc |-> 0]

\* the server had no album, the album of the first folder and its parking
\* directory have been created
FirstAlbumCreated ==
    /\ remoteAlbums = {}
    /\ albums = [k \in AlbumKeys |->
                   IF k = entries[1].name THEN CreatedId(k) ELSE NoAlbum]
    /\ albumID = CreatedId(entries[1].name)
    /\ listReqs = 1
    /\ createReqs = <<entries[1].name>>
    /\ ignoreDirs = {entries[1].name}

\* the ticker is as Run started it and Run has not returned
TickerAsStarted ==
    /\ tkpc = IF tuiEnabled THEN "select" ELSE "off"
    /\ ticks = 0

\* tui's mutex is free and no goroutine is at an access of tui (the accesses
\* are part of the steps of the pipeline)
LockOff ==
    /\ tuiLock = NoG
    /\ lk = [g \in Goroutines |-> OutOfSection]

\* everything but the options and the entries of the root
InitRun ==
    /\ WalkOff
    /\ LockOff
    /\ tkpc = "off"
    /\ ticks = 0
    /\ albums = [k \in AlbumKeys |-> NoAlbum]
    /\ albumID = NoAlbum
    /\ listReqs = 0
    /\ createReqs = <<>>
    /\ ignoreDirs = {}
    /\ runErr = "none"
    /\ listSent = FALSE
    /\ skipped = 0
    /\ mv = [w \in WorkerIdx |-> NoMv]
    /\ tree = EmptyTree
    /\ tree0 = EmptyTree
    /\ cancelled = FALSE
    /\ album = 0
    /\ mpc = "checkOpts"
    /\ files = <<>>
    /\ fstate = [i \in FileIdx |-> "none"]
    /\ finfo = NoInfo
    /\ workerCount = 0
    /\ wg = 0
    /\ jobsClosed = FALSE
    /\ resultsClosed = FALSE
    /\ ppc = "off"
    /\ pidx = 0
    /\ wpc = [w \in WorkerIdx |-> "off"]
    /\ wjob = [w \in WorkerIdx |-> 0]
    /\ wres = [w \in WorkerIdx |-> NoRes]
    /\ completed = 0
    /\ uploadErrors = 0
    /\ uploadedIDs = <<>>
    /\ uploadedBytes = 0
    /\ chunks = <<>>
    /\ lidx = 0
    /\ linkReqs = <<>>
    /\ tui = NoTui
    /\ log = NoLog
    /\ hist = [i \in FileIdx |-> NoHist]

\* fingerprinting off, every entry of the root an album folder; the mode as
\* --tui says, on a terminal (the CLI leaves opt.TUIAuto off)
Init ==
    /\ optAPIKey \in BOOLEAN
    /\ optRoot \in BOOLEAN
    /\ optWorkers \in 1..MaxWorkers
    /\ optBatchSize \in 1..MaxBatch
    /\ optChecksum = FALSE
    /\ optDeep = TRUE
    /\ optSmallestFirst = FALSE
    /\ fileSizes = {1}
    /\ optTUI \in BOOLEAN
    /\ optTUIAuto = FALSE
    /\ isTTY = TRUE
    /\ SelectRenderer
    /\ entries = RootEntries(0, [k \in 1..NumAlbums |-> TRUE])
    /\ remoteAlbums = {}
    /\ InitRun

\* ---- setup (main goroutine) ----------------------------------------------

\* Run returns err
Fail(e) ==
    /\ runErr' = e
    /\ mpc' = "failed"

\* the opt.APIKey == "" and opt.Root == "" tests
CheckOptions ==
    /\ mpc = "checkOpts"
    /\ IF ~optAPIKey THEN Fail("missingKey")
       ELSE IF ~optRoot THEN Fail("missingRoot")
       ELSE mpc' = "list" /\ runErr' = runErr
    /\ UNCHANGED <<cfgVars, walkVars, lockVars, tickVars, idxVars, albumID, finfo, mvVars, listSent, skipped, cancelled, album, files, fstate,
                   pipeVars, consVars, linkVars, tui, log, hist>>

\* albums, err := c.getAllAlbums(ctx); with ctx done the request can only
\* fail
ListAlbums ==
    /\ mpc = "list"
    /\ listSent' = TRUE
    /\ listReqs' = listReqs + 1
    /\ \E ok \in BOOLEAN :
         IF ok /\ ~cancelled
         THEN mpc' = "readRoot" /\ runErr' = runErr /\ albums' = ListedIndex
         ELSE Fail("listAlbums") /\ albums' = albums
    /\ UNCHANGED <<cfgVars, walkVars, lockVars, tickVars, createReqs, ignoreDirs, albumID, finfo, mvVars, skipped, cancelled, album, files, fstate,
                   pipeVars, consVars, linkVars, tui, log, hist>>

\* os.ReadDir(opt.Root); tui is made and, in live mode, the ticker
\* goroutine is started; then the album loop starts at the first entry it
\* does not skip
ReadRoot ==
    /\ mpc = "readRoot"
    /\ \E ok \in BOOLEAN :
         IF ok
         THEN /\ album' = NextAlbumFrom(1)
              /\ mpc' = IF album' > Len(entries) THEN "done" ELSE "resolve"
              /\ runErr' = runErr
              /\ tkpc' = IF tuiEnabled THEN "select" ELSE tkpc
         ELSE Fail("readRoot") /\ album' = album /\ tkpc' = tkpc
    /\ UNCHANGED <<cfgVars, walkVars, lockVars, ticks, idxVars, albumID, finfo, mvVars, listSent, skipped, cancelled, files, fstate,
                   pipeVars, consVars, linkVars, tui, log, hist>>

\* ---- the album loop (main goroutine) ------------------------------------

\* `continue` / end of the loop body: the next entry that is not skipped,
\* with the variables declared inside the loop body gone out of scope.
NextEntry ==
    /\ album' = NextAlbumFrom(album + 1)
    /\ mpc' = IF album' > Len(entries) THEN "done" ELSE "resolve"
    /\ albumID' = NoAlbum
    /\ files' = <<>>
    /\ fstate' = [i \in FileIdx |-> "none"]
    /\ finfo' = NoInfo
    /\ workerCount' = 0
    /\ wg' = 0
    /\ jobsClosed' = FALSE
    /\ resultsClosed' = FALSE
    /\ ppc' = "off"
    /\ pidx' = 0
    /\ wpc' = [w \in WorkerIdx |-> "off"]
    /\ wjob' = [w \in WorkerIdx |-> 0]
    /\ wres' = [w \in WorkerIdx |-> NoRes]
    /\ completed' = 0
    /\ uploadErrors' = 0
    /\ uploadedIDs' = <<>>
    /\ uploadedBytes' = 0
    /\ chunks' = <<>>
    /\ lidx' = 0
    /\ linkReqs' = <<>>
    /\ log' = NoLog
    /\ hist' = [i \in FileIdx |-> NoHist]

\* variant of GiveUpAlbum: a failed album setup step ends the run
GiveUpAlbum_fatal ==
    /\ log' = [log EXCEPT !.albumFailed = @ + 1]
    /\ runErr' = "album"
    /\ mpc' = "failed"
    /\ UNCHANGED <<cfgVars, walkVars, lockVars, tickVars, idxVars, albumID, finfo, mvVars, listSent, skipped, cancelled, album, files, fstate,
                   pipeVars, consVars, linkVars, tui, hist>>

\* eventf of a failed album setup step, then `continue`
GiveUpAlbum ==
    /\ log' = [log EXCEPT !.albumFailed = @ + 1]
    /\ mpc' = "skip"
    /\ UNCHANGED <<cfgVars, walkVars, lockVars, tickVars, idxVars, albumID, finfo, mvVars, runVars, cancelled, album, files, fstate, pipeVars,
                   consVars, linkVars, tui, hist>>

\* variant of lookup: a name that differs in case only is a hit
lookup_foldCase(index, name) ==
    IF index[name] # NoAlbum THEN index[name] ELSE index[UpperOf(name)]

\* albums[folderName]: NoAlbum for !ok
lookup(index, name) == index[name]

\* albumID, ok := albums[folderName]; on a miss c.createAlbum(ctx,
\* folderName), which with ctx done can only fail: on an error the album is
\* given up, otherwise the new id is used and put into the index
ResolveAlbum ==
    /\ mpc = "resolve"
    /\ LET folderName == entries[album].name
           found == lookup(albums, folderName)
       IN  IF found # NoAlbum
           THEN /\ albumID' = found
                /\ mpc' = "mkdir"
                /\ UNCHANGED <<idxVars, log>>
           ELSE /\ createReqs' = Append(createReqs, folderName)
                /\ UNCHANGED <<listReqs, ignoreDirs>>
                /\ \E ok \in BOOLEAN :
                     IF ok /\ ~cancelled
                     THEN /\ albumID' = CreatedId(folderName)
                          /\ albums' = [albums EXCEPT ![folderName] = CreatedId(folderName)]
                          /\ mpc' = "mkdir"
                          /\ log' = log
                     ELSE /\ log' = [log EXCEPT !.albumFailed = @ + 1]
                          /\ mpc' = "skip"
                          /\ UNCHANGED <<albums, albumID>>
    /\ UNCHANGED <<cfgVars, walkVars, lockVars, tickVars, finfo, mvVars, runVars, cancelled, album, files, fstate, pipeVars,
                   consVars, linkVars, tui, hist>>

\* variant of EnsureIgnoreDir: the parking directory is left to the first
\* relocation
EnsureIgnoreDir_lazy ==
    /\ mpc = "mkdir"
    /\ mpc' = "scan"
    /\ UNCHANGED <<cfgVars, walkVars, lockVars, tickVars, idxVars, albumID, finfo, mvVars, runVars, cancelled, album, files, fstate, pipeVars,
                   consVars, linkVars, tui, log, hist>>

\* ensureIgnoreAlbumDir(opt.Root, opt.IgnoreDir, folderName): MkdirAll of
\* the album's parking directory; on an error the album is given up
EnsureIgnoreDir ==
    /\ mpc = "mkdir"
    /\ \E ok \in BOOLEAN :
         IF ok
         THEN /\ mpc' = "scan"
              /\ ignoreDirs' = ignoreDirs \cup {entries[album].name}
              /\ UNCHANGED <<cfgVars, walkVars, lockVars, tickVars, albums, listReqs, createReqs, albumID, finfo, mvVars, runVars, cancelled, album, files, fstate, pipeVars,
                             consVars, linkVars, tui, log, hist>>
         ELSE GiveUpAlbum

\* the permutations of 1..n
Perms(n) == {f \in [1..n -> 1..n] : \A i, j \in 1..n : f[i] = f[j] => i = j}

\* what the scan can find of n files, numbered in the order the walk appends
\* them: a size each, and the order of their paths as strings, which only
\* the comparator of the sort reads
FileInfos(n) ==
    {[i \in FileIdx |-> IF i <= n THEN FileInfo(sz[i], rk[i]) ELSE FileInfo(0, 0)] :
        sz \in [1..n -> fileSizes],
        rk \in IF optSmallestFirst THEN Perms(n) ELSE {[i \in 1..n |-> i]}}

\* whether os.Stat of a file fails inside the comparator (no file is
\* stat-ed there when the list is not sorted)
SortErrs(n) ==
    {[i \in FileIdx |-> i <= n /\ e[i]] :
        e \in [1..n -> IF optSmallestFirst THEN BOOLEAN ELSE {FALSE}]}

\* variant of ScanAlbum: after a failed walk the files found so far are
\* uploaded
ScanAlbum_partial ==
    /\ mpc = "scan"
    /\ \E walkOk \in BOOLEAN, n \in 0..MaxFiles :
         IF n > 0
         THEN /\ \E info \in FileInfos(n), err \in SortErrs(n) :
                   /\ finfo' = info
                   /\ files' = IF optSmallestFirst
                               THEN sortSlice(info, err, [i \in 1..n |-> i])
                               ELSE [i \in 1..n |-> i]
                   /\ hist' = [i \in FileIdx |-> [NoHist EXCEPT !.sortErr = err[i]]]
              /\ fstate' = [i \in FileIdx |-> IF i <= n THEN "orig" ELSE "none"]
              /\ mpc' = "spawn"
              /\ log' = IF walkOk THEN log ELSE [log EXCEPT !.albumFailed = @ + 1]
              /\ UNCHANGED <<cfgVars, walkVars, lockVars, tickVars, idxVars, albumID, mvVars, runVars, cancelled, album, pipeVars, consVars,
                             linkVars, tui>>
         ELSE /\ mpc' = "noMedia"
              /\ UNCHANGED <<cfgVars, walkVars, lockVars, tickVars, idxVars, albumID, finfo, mvVars, runVars, cancelled, album, files, fstate, pipeVars,
                             consVars, linkVars, tui, log, hist>>

\* filepath.WalkDir over the album folder: on an error the album is given
\* up, whatever was found; otherwise the len(files) == 0 test, and with
\* opt.SmallestFirst the sort of the list
ScanAlbum ==
    /\ mpc = "scan"
    /\ \E walkOk \in BOOLEAN, n \in 0..MaxFiles :
         IF ~walkOk
         THEN GiveUpAlbum
         ELSE IF n > 0
         THEN /\ \E info \in FileInfos(n), err \in SortErrs(n) :
                   /\ finfo' = info
                   /\ files' = IF optSmallestFirst
                               THEN sortSlice(info, err, [i \in 1..n |-> i])
                               ELSE [i \in 1..n |-> i]
                   /\ hist' = [i \in FileIdx |-> [NoHist EXCEPT !.sortErr = err[i]]]
              /\ fstate' = [i \in FileIdx |-> IF i <= n THEN "orig" ELSE "none"]
              /\ mpc' = "spawn"
              /\ UNCHANGED <<cfgVars, walkVars, lockVars, tickVars, idxVars, albumID, mvVars, runVars, cancelled, album, pipeVars, consVars,
                             linkVars, tui, log>>
         ELSE /\ mpc' = "noMedia"
              /\ UNCHANGED <<cfgVars, walkVars, lockVars, tickVars, idxVars, albumID, finfo, mvVars, runVars, cancelled, album, files, fstate, pipeVars,
                             consVars, linkVars, tui, log, hist>>

\* eventf("No media files in %s, skipping"), then `continue`
NoMediaSkip ==
    /\ mpc = "noMedia"
    /\ NextEntry
    /\ UNCHANGED <<cfgVars, walkVars, lockVars, tickVars, idxVars, mvVars, runVars, cancelled, tui>>

\* the `continue` after a failed album setup step
SkipAlbum ==
    /\ mpc = "skip"
    /\ skipped' = skipped + 1
    /\ NextEntry
    /\ UNCHANGED <<cfgVars, walkVars, lockVars, tickVars, idxVars, mvVars, runErr, listSent, cancelled, tui>>

\* the per-album locals are set up (uploadedIDs, uploadErrors, completed,
\* the two channels, the WaitGroup, workerCount), then the worker
\* goroutines and the producer goroutine are started
StartPipeline ==
    /\ mpc = "spawn"
    /\ uploadedIDs' = <<>>
    /\ uploadedBytes' = 0
    /\ uploadErrors' = 0
    /\ completed' = 0
    /\ jobsClosed' = FALSE
    /\ resultsClosed' = FALSE
    /\ workerCount' = clampWorkers(optWorkers, Len(files))
    /\ wg' = workerCount'
    /\ wpc' = [w \in WorkerIdx |-> IF w <= workerCount' THEN "recv" ELSE "off"]
    /\ ppc' = "stat"
    /\ pidx' = 1
    /\ mpc' = "consume"
    /\ UNCHANGED <<cfgVars, walkVars, lockVars, tickVars, idxVars, albumID, finfo, mvVars, runVars, cancelled, album, files, fstate, wjob, wres,
                   linkVars, tui, log, hist>>

\* ---- the producer goroutine ----------------------------------------------

\* the loop variable moves on; past the last file the loop ends
ProducerAdvance ==
    /\ pidx' = pidx + 1
    /\ ppc' = IF pidx + 1 > Len(files) THEN "close" ELSE "stat"

\* variant of ProducerStat: a file whose stat fails is skipped without a result
ProducerStat_skip ==
    /\ ppc = "stat"
    /\ \E statOk \in BOOLEAN :
         IF statOk
         THEN ppc' = "sendJob" /\ pidx' = pidx
         ELSE ProducerAdvance
    /\ UNCHANGED <<cfgVars, walkVars, lockVars, tickVars, idxVars, albumID, finfo, mvVars, runVars, cancelled, album, mpc, files, fstate, workerCount, wg,
                   jobsClosed, resultsClosed, wpc, wjob, wres, consVars,
                   linkVars, tui, log, hist>>

\* variant of ProducerStat: with ctx done the producer leaves its loop
ProducerStat_stopOnCancel ==
    /\ ppc = "stat"
    /\ IF cancelled
       THEN ppc' = "close"
       ELSE \E statOk \in BOOLEAN : ppc' = IF statOk THEN "sendJob" ELSE "sendErr"
    /\ UNCHANGED <<cfgVars, walkVars, lockVars, tickVars, idxVars, albumID, finfo, mvVars, runVars, cancelled, album, mpc, files, fstate, workerCount, wg,
                   jobsClosed, resultsClosed, pidx, wpc, wjob, wres, consVars,
                   linkVars, tui, log, hist>>

\* st, err := os.Stat(fp)
ProducerStat ==
    /\ ppc = "stat"
    /\ \E statOk \in BOOLEAN : ppc' = IF statOk THEN "sendJob" ELSE "sendErr"
    /\ UNCHANGED <<cfgVars, walkVars, lockVars, tickVars, idxVars, albumID, finfo, mvVars, runVars, cancelled, album, mpc, files, fstate, workerCount, wg,
                   jobsClosed, resultsClosed, pidx, wpc, wjob, wres, consVars,
                   linkVars, tui, log, hist>>

\* jobs <- uploadJob{...} meets `for job := range jobs` of worker w
Dispatch(w) ==
    /\ ppc = "sendJob"
    /\ wpc[w] = "recv"
    /\ ~jobsClosed
    /\ wjob' = [wjob EXCEPT ![w] = files[pidx]]
    /\ wpc' = [wpc EXCEPT ![w] = "stat"]
    /\ hist' = [hist EXCEPT ![files[pidx]].dispatched = @ + 1,
                            ![files[pidx]].late = cancelled]
    /\ ProducerAdvance
    /\ UNCHANGED <<cfgVars, walkVars, lockVars, tickVars, idxVars, albumID, finfo, mvVars, runVars, cancelled, album, mpc, files, fstate, workerCount, wg,
                   jobsClosed, resultsClosed, wres, consVars, linkVars, tui, log>>

\* close(jobs)
ProducerCloseJobs ==
    /\ ppc = "close"
    /\ jobsClosed' = TRUE
    /\ ppc' = "wait"
    /\ UNCHANGED <<cfgVars, walkVars, lockVars, tickVars, idxVars, albumID, finfo, mvVars, runVars, cancelled, album, mpc, files, fstate, workerCount, wg,
                   resultsClosed, pidx, wpc, wjob, wres, consVars, linkVars, tui,
                   log, hist>>

\* variant of ProducerWait: the producer does not wait for the workers
ProducerWait_early ==
    /\ ppc = "wait"
    /\ ppc' = "closeResults"
    /\ UNCHANGED <<cfgVars, walkVars, lockVars, tickVars, idxVars, albumID, finfo, mvVars, runVars, cancelled, album, mpc, files, fstate, workerCount, wg,
                   jobsClosed, resultsClosed, pidx, wpc, wjob, wres, consVars,
                   linkVars, tui, log, hist>>

\* wg.Wait() returns
ProducerWait ==
    /\ ppc = "wait"
    /\ wg = 0
    /\ ppc' = "closeResults"
    /\ UNCHANGED <<cfgVars, walkVars, lockVars, tickVars, idxVars, albumID, finfo, mvVars, runVars, cancelled, album, mpc, files, fstate, workerCount, wg,
                   jobsClosed, resultsClosed, pidx, wpc, wjob, wres, consVars,
                   linkVars, tui, log, hist>>

\* variant of ProducerCloseResults: results is closed without the join
ProducerCloseResults_noJoin ==
    /\ ppc \in {"wait", "closeResults"}
    /\ resultsClosed' = TRUE
    /\ ppc' = "done"
    /\ UNCHANGED <<cfgVars, walkVars, lockVars, tickVars, idxVars, albumID, finfo, mvVars, runVars, cancelled, album, mpc, files, fstate, workerCount, wg,
                   jobsClosed, pidx, wpc, wjob, wres, consVars, linkVars, tui, log,
                   hist>>

\* close(results)
ProducerCloseResults ==
    /\ ppc = "closeResults"
    /\ resultsClosed' = TRUE
    /\ ppc' = "done"
    /\ UNCHANGED <<cfgVars, walkVars, lockVars, tickVars, idxVars, albumID, finfo, mvVars, runVars, cancelled, album, mpc, files, fstate, workerCount, wg,
                   jobsClosed, pidx, wpc, wjob, wres, consVars, linkVars, tui, log,
                   hist>>

\* ---- a worker goroutine ---------------------------------------------------

\* variant of WorkerExit: the worker returns without wg.Done()
WorkerExit_noDone(w) ==
    /\ wpc[w] = "recv"
    /\ jobsClosed
    /\ wpc' = [wpc EXCEPT ![w] = "exit"]
    /\ UNCHANGED <<cfgVars, walkVars, lockVars, tickVars, idxVars, albumID, finfo, mvVars, runVars, cancelled, album, mpc, files, fstate, workerCount, wg,
                   jobsClosed, resultsClosed, ppc, pidx, wjob, wres, consVars,
                   linkVars, tui, log, hist>>

\* `for job := range jobs` ends on the closed channel; defer wg.Done()
WorkerExit(w) ==
    /\ wpc[w] = "recv"
    /\ jobsClosed
    /\ wpc' = [wpc EXCEPT ![w] = "exit"]
    /\ wg' = wg - 1
    /\ UNCHANGED <<cfgVars, walkVars, lockVars, tickVars, idxVars, albumID, finfo, mvVars, runVars, cancelled, album, mpc, files, fstate, workerCount,
                   jobsClosed, resultsClosed, ppc, pidx, wjob, wres, consVars,
                   linkVars, tui, log, hist>>

\* st, err := os.Stat(job.path)
WorkerStat(w) ==
    /\ wpc[w] = "stat"
    /\ \E statOk \in BOOLEAN :
         IF statOk
         THEN /\ wpc' = [wpc EXCEPT ![w] = "upload"]
              /\ wres' = wres
         ELSE /\ wpc' = [wpc EXCEPT ![w] = "send"]
              /\ wres' = [wres EXCEPT ![w] = [err |-> TRUE, id |-> 0, dup |-> FALSE]]
    /\ UNCHANGED <<cfgVars, walkVars, lockVars, tickVars, idxVars, albumID, finfo, mvVars, runVars, cancelled, album, mpc, files, fstate, workerCount, wg,
                   jobsClosed, resultsClosed, ppc, pidx, wjob, consVars, linkVars,
                   tui, log, hist>>

\* variant of WorkerUploadCall: the request is not bound to ctx
WorkerUploadCall_ignoreCtx(w) ==
    /\ wpc[w] = "upload"
    /\ wpc' = [wpc EXCEPT ![w] = "uploading"]
    /\ wres' = [wres EXCEPT ![w] = [err |-> FALSE, id |-> 0, dup |-> FALSE]]
    /\ \E sumOk \in (IF optChecksum THEN BOOLEAN ELSE {TRUE}) :
         hist' = [hist EXCEPT ![wjob[w]].upCalls = @ + 1,
                              ![wjob[w]].sumErr = ~sumOk]
    /\ UNCHANGED <<cfgVars, walkVars, lockVars, tickVars, idxVars, albumID, finfo, mvVars, runVars, cancelled, album, mpc, files, fstate, workerCount, wg,
                   jobsClosed, resultsClosed, ppc, pidx, wjob, consVars, linkVars,
                   tui, log>>

\* variant of WorkerUploadCall: a failed sha1File gives the file an error
\* result and no upload
WorkerUploadCall_sumFatal(w) ==
    /\ wpc[w] = "upload"
    /\ \E sumOk \in (IF optChecksum THEN BOOLEAN ELSE {TRUE}) :
         IF sumOk
         THEN /\ wpc' = [wpc EXCEPT ![w] = "uploading"]
              /\ wres' = [wres EXCEPT ![w] = [err |-> cancelled, id |-> 0, dup |-> FALSE]]
              /\ hist' = [hist EXCEPT ![wjob[w]].upCalls = @ + 1]
         ELSE /\ wpc' = [wpc EXCEPT ![w] = "send"]
              /\ wres' = [wres EXCEPT ![w] = [err |-> TRUE, id |-> 0, dup |-> FALSE]]
              /\ hist' = [hist EXCEPT ![wjob[w]].sumErr = TRUE]
    /\ UNCHANGED <<cfgVars, walkVars, lockVars, tickVars, idxVars, albumID, finfo, mvVars, runVars, cancelled, album, mpc, files, fstate, workerCount, wg,
                   jobsClosed, resultsClosed, ppc, pidx, wjob, consVars, linkVars,
                   tui, log>>

\* after a successful stat: deviceAssetID from the path relative to the
\* root (a pure computation); with opt.Checksum, sha1File(job.path): its
\* error is dropped and the upload goes ahead without the checksum.  Then
\* c.uploadAsset is called:
\* the request is bound to ctx, and with ctx already done the call can only
\* fail
WorkerUploadCall(w) ==
    /\ wpc[w] = "upload"
    /\ wpc' = [wpc EXCEPT ![w] = "uploading"]
    /\ wres' = [wres EXCEPT ![w] = [err |-> cancelled, id |-> 0, dup |-> FALSE]]
    /\ \E sumOk \in (IF optChecksum THEN BOOLEAN ELSE {TRUE}) :
         hist' = [hist EXCEPT ![wjob[w]].upCalls = @ + 1,
                              ![wjob[w]].sumErr = ~sumOk]
    /\ UNCHANGED <<cfgVars, walkVars, lockVars, tickVars, idxVars, albumID, finfo, mvVars, runVars, cancelled, album, mpc, files, fstate, workerCount, wg,
                   jobsClosed, resultsClosed, ppc, pidx, wjob, consVars, linkVars,
                   tui, log>>

\* variant of WorkerUploadReturn: moveFileToIgnore is called whatever err is
WorkerUploadReturn_moveAlways(w) ==
    /\ wpc[w] = "uploading"
    /\ \E ok \in BOOLEAN, id \in AssetIds, dup \in BOOLEAN :
         IF ok /\ ~wres[w].err
         THEN /\ wres' = [wres EXCEPT ![w] = [err |-> FALSE, id |-> id, dup |-> dup]]
              /\ hist' = [hist EXCEPT ![wjob[w]].up = "ok", ![wjob[w]].upId = id]
         ELSE /\ wres' = [wres EXCEPT ![w] = [err |-> TRUE, id |-> 0, dup |-> FALSE]]
              /\ hist' = [hist EXCEPT ![wjob[w]].up = "fail"]
    /\ wpc' = [wpc EXCEPT ![w] = "move"]
    /\ UNCHANGED <<cfgVars, walkVars, lockVars, tickVars, idxVars, albumID, finfo, mvVars, runVars, cancelled, album, mpc, files, fstate, workerCount, wg,
                   jobsClosed, resultsClosed, ppc, pidx, wjob, consVars, linkVars,
                   tui, log>>

\* variant of WorkerUploadReturn: a failed upload is tried again
WorkerUploadReturn_retry(w) ==
    /\ wpc[w] = "uploading"
    /\ \E ok \in BOOLEAN, id \in AssetIds, dup \in BOOLEAN :
         IF ok /\ ~wres[w].err
         THEN /\ wres' = [wres EXCEPT ![w] = [err |-> FALSE, id |-> id, dup |-> dup]]
              /\ wpc' = [wpc EXCEPT ![w] = "move"]
              /\ hist' = [hist EXCEPT ![wjob[w]].up = "ok", ![wjob[w]].upId = id]
         ELSE /\ wres' = [wres EXCEPT ![w] = [err |-> TRUE, id |-> 0, dup |-> FALSE]]
              /\ wpc' = [wpc EXCEPT ![w] = IF hist[wjob[w]].upCalls < 2
                                           THEN "upload" ELSE "send"]
              /\ hist' = [hist EXCEPT ![wjob[w]].up = "fail"]
    /\ UNCHANGED <<cfgVars, walkVars, lockVars, tickVars, idxVars, albumID, finfo, mvVars, runVars, cancelled, album, mpc, files, fstate, workerCount, wg,
                   jobsClosed, resultsClosed, ppc, pidx, wjob, consVars, linkVars,
                   tui, log>>

\* variant of WorkerUploadReturn: after a successful upload the result is
\* sent without the relocation
WorkerUploadReturn_noMove(w) ==
    /\ wpc[w] = "uploading"
    /\ \E ok \in BOOLEAN, id \in AssetIds, dup \in BOOLEAN :
         IF ok /\ ~wres[w].err
         THEN /\ wres' = [wres EXCEPT ![w] = [err |-> FALSE, id |-> id, dup |-> dup]]
              /\ hist' = [hist EXCEPT ![wjob[w]].up = "ok", ![wjob[w]].upId = id]
         ELSE /\ wres' = [wres EXCEPT ![w] = [err |-> TRUE, id |-> 0, dup |-> FALSE]]
              /\ hist' = [hist EXCEPT ![wjob[w]].up = "fail"]
    /\ wpc' = [wpc EXCEPT ![w] = "send"]
    /\ UNCHANGED <<cfgVars, walkVars, lockVars, tickVars, idxVars, albumID, finfo, mvVars, runVars, cancelled, album, mpc, files, fstate, workerCount, wg,
                   jobsClosed, resultsClosed, ppc, pidx, wjob, consVars, linkVars,
                   tui, log>>

\* c.uploadAsset returns (asset, err)
WorkerUploadReturn(w) ==
    /\ wpc[w] = "uploading"
    /\ \E ok \in BOOLEAN, id \in AssetIds, dup \in BOOLEAN :
         IF ok /\ ~wres[w].err
         THEN /\ wres' = [wres EXCEPT ![w] = [err |-> FALSE, id |-> id, dup |-> dup]]
              /\ wpc' = [wpc EXCEPT ![w] = "move"]
              /\ hist' = [hist EXCEPT ![wjob[w]].up = "ok", ![wjob[w]].upId = id]
         ELSE /\ wres' = [wres EXCEPT ![w] = [err |-> TRUE, id |-> 0, dup |-> FALSE]]
              /\ wpc' = [wpc EXCEPT ![w] = "send"]
              /\ hist' = [hist EXCEPT ![wjob[w]].up = "fail"]
    /\ UNCHANGED <<cfgVars, walkVars, lockVars, tickVars, idxVars, albumID, finfo, mvVars, runVars, cancelled, album, mpc, files, fstate, workerCount, wg,
                   jobsClosed, resultsClosed, ppc, pidx, wjob, consVars, linkVars,
                   tui, log>>

\* variant of WorkerMove: a failed move is not reported
WorkerMove_silent(w) ==
    /\ wpc[w] = "move"
    /\ \E ok \in BOOLEAN :
         /\ fstate' = IF ok THEN [fstate EXCEPT ![wjob[w]] = "parked"] ELSE fstate
         /\ hist' = [hist EXCEPT ![wjob[w]].mvCalls = @ + 1]
    /\ wpc' = [wpc EXCEPT ![w] = "send"]
    /\ UNCHANGED <<cfgVars, walkVars, lockVars, tickVars, idxVars, albumID, finfo, mvVars, runVars, cancelled, album, mpc, files, workerCount, wg,
                   jobsClosed, resultsClosed, ppc, pidx, wjob, wres, consVars,
                   linkVars, log, tui>>

\* variant of MoveReturned: the relocation failure is counted as an upload
\* failure
MoveReturned_asUploadFailure(w, ok) ==
    /\ wpc[w] = "move"
    /\ IF ok
       THEN /\ fstate' = [fstate EXCEPT ![wjob[w]] = "parked"]
            /\ hist' = [hist EXCEPT ![wjob[w]].mvCalls = @ + 1]
            /\ UNCHANGED <<log, tui>>
       ELSE /\ fstate' = fstate
            /\ hist' = [hist EXCEPT ![wjob[w]].mvCalls = @ + 1,
                                    ![wjob[w]].mvFailLogged = TRUE]
            /\ log' = [log EXCEPT !.moveFailed = @ + 1]
            /\ tui' = IF tuiEnabled
                      THEN [tui EXCEPT !.globalFailed = @ + 1]
                      ELSE tui
    /\ wpc' = [wpc EXCEPT ![w] = "send"]
    /\ UNCHANGED <<cfgVars, walkVars, lockVars, tickVars, idxVars, albumID, finfo, mvVars, runVars, cancelled, album, mpc, files, workerCount, wg,
                   jobsClosed, resultsClosed, ppc, pidx, wjob, wres, consVars,
                   linkVars>>

\* moveFileToIgnore has returned nil (ok) or an error: on an error the
\* "move failed" event and, in live mode, tui.globalMovedFail++
MoveReturned(w, ok) ==
    /\ wpc[w] = "move"
    /\ IF ok
       THEN /\ fstate' = [fstate EXCEPT ![wjob[w]] = "parked"]
            /\ hist' = [hist EXCEPT ![wjob[w]].mvCalls = @ + 1]
            /\ UNCHANGED <<log, tui>>
       ELSE /\ fstate' = fstate
            /\ hist' = [hist EXCEPT ![wjob[w]].mvCalls = @ + 1,
                                    ![wjob[w]].mvFailLogged = TRUE]
            /\ log' = [log EXCEPT !.moveFailed = @ + 1]
            /\ tui' = IF tuiEnabled
                      THEN [tui EXCEPT !.globalMovedFail = @ + 1]
                      ELSE tui
    /\ wpc' = [wpc EXCEPT ![w] = "send"]
    /\ UNCHANGED <<cfgVars, walkVars, lockVars, tickVars, idxVars, albumID, finfo, mvVars, runVars, cancelled, album, mpc, files, workerCount, wg,
                   jobsClosed, resultsClosed, ppc, pidx, wjob, wres, consVars,
                   linkVars>>

\* moveFileToIgnore after a successful upload, as one step
WorkerMove(w) == \E ok \in BOOLEAN : MoveReturned(w, ok)

\* ---- the result consumer (main goroutine) -------------------------------

\* variant of Collect: a duplicate is counted but not kept for linking
Collect_dupNotLinked(res, f) ==
    /\ completed' = completed + 1
    /\ hist' = [hist EXCEPT ![f].nres = @ + 1, ![f].resErr = res.err]
    /\ IF res.err
       THEN /\ uploadErrors' = uploadErrors + 1
            /\ log' = [log EXCEPT !.uploadFailed = @ + 1]
            /\ tui' = IF tuiEnabled THEN [tui EXCEPT !.globalFailed = @ + 1] ELSE tui
            /\ UNCHANGED <<uploadedIDs, uploadedBytes>>
       ELSE /\ uploadedIDs' = IF res.dup THEN uploadedIDs ELSE Append(uploadedIDs, res.id)
            /\ uploadedBytes' = uploadedBytes + finfo[f].size
            /\ tui' = IF tuiEnabled
                      THEN [tui EXCEPT !.globalFiles = @ + 1,
                                       !.globalDup = IF res.dup THEN @ + 1 ELSE @,
                                       !.albumDone = completed',
                                       !.albumBytes = uploadedBytes',
                                       !.globalBytes = @ + finfo[f].size]
                      ELSE tui
            /\ UNCHANGED <<uploadErrors, log>>

\* variant of Collect: the asset id is appended before err is looked at
Collect_appendFirst(res, f) ==
    /\ completed' = completed + 1
    /\ hist' = [hist EXCEPT ![f].nres = @ + 1, ![f].resErr = res.err]
    /\ uploadedIDs' = Append(uploadedIDs, res.id)
    /\ IF res.err
       THEN /\ uploadErrors' = uploadErrors + 1
            /\ log' = [log EXCEPT !.uploadFailed = @ + 1]
            /\ tui' = IF tuiEnabled THEN [tui EXCEPT !.globalFailed = @ + 1] ELSE tui
            /\ uploadedBytes' = uploadedBytes
       ELSE /\ uploadedBytes' = uploadedBytes + finfo[f].size
            /\ tui' = IF tuiEnabled
                      THEN [tui EXCEPT !.globalFiles = @ + 1,
                                       !.globalDup = IF res.dup THEN @ + 1 ELSE @,
                                       !.albumDone = completed',
                                       !.albumBytes = uploadedBytes',
                                       !.globalBytes = @ + finfo[f].size]
                      ELSE tui
            /\ UNCHANGED <<uploadErrors, log>>

\* variant of Collect: the byte counter of the run is set to the bytes of
\* the album
Collect_bytesOfAlbum(res, f) ==
    /\ completed' = completed + 1
    /\ hist' = [hist EXCEPT ![f].nres = @ + 1, ![f].resErr = res.err]
    /\ IF res.err
       THEN /\ uploadErrors' = uploadErrors + 1
            /\ log' = [log EXCEPT !.uploadFailed = @ + 1]
            /\ tui' = IF tuiEnabled THEN [tui EXCEPT !.globalFailed = @ + 1] ELSE tui
            /\ UNCHANGED <<uploadedIDs, uploadedBytes>>
       ELSE /\ uploadedIDs' = Append(uploadedIDs, res.id)
            /\ uploadedBytes' = uploadedBytes + finfo[f].size
            /\ tui' = IF tuiEnabled
                      THEN [tui EXCEPT !.globalFiles = @ + 1,
                                       !.globalDup = IF res.dup THEN @ + 1 ELSE @,
                                       !.albumDone = completed',
                                       !.albumBytes = uploadedBytes',
                                       !.globalBytes = uploadedBytes']
                      ELSE tui
            /\ UNCHANGED <<uploadErrors, log>>

\* body of `for res := range results` for the result res of file f; the
\* size in a success result is the size the producer's stat read.  In live
\* mode the counters of tui are updated, each group under tui's lock.
Collect(res, f) ==
    /\ completed' = completed + 1
    /\ hist' = [hist EXCEPT ![f].nres = @ + 1, ![f].resErr = res.err]
    /\ IF res.err
       THEN /\ uploadErrors' = uploadErrors + 1
            /\ log' = [log EXCEPT !.uploadFailed = @ + 1]
            /\ tui' = IF tuiEnabled THEN [tui EXCEPT !.globalFailed = @ + 1] ELSE tui
            /\ UNCHANGED <<uploadedIDs, uploadedBytes>>
       ELSE /\ uploadedIDs' = Append(uploadedIDs, res.id)
            /\ uploadedBytes' = uploadedBytes + finfo[f].size
            /\ tui' = IF tuiEnabled
                      THEN [tui EXCEPT !.globalFiles = @ + 1,
                                       !.globalDup = IF res.dup THEN @ + 1 ELSE @,
                                       !.albumDone = completed',
                                       !.albumBytes = uploadedBytes',
                                       !.globalBytes = @ + finfo[f].size]
                      ELSE tui
            /\ UNCHANGED <<uploadErrors, log>>

\* variant of RecvFromWorker: the consumer leaves its loop at the first
\* error result
RecvFromWorker_abort(w) ==
    /\ mpc = "consume"
    /\ wpc[w] = "send"
    /\ ~resultsClosed
    /\ Collect(wres[w], wjob[w])
    /\ mpc' = IF wres[w].err THEN "collected" ELSE mpc
    /\ wpc' = [wpc EXCEPT ![w] = "recv"]
    /\ wjob' = [wjob EXCEPT ![w] = 0]
    /\ wres' = [wres EXCEPT ![w] = NoRes]
    /\ UNCHANGED <<cfgVars, walkVars, lockVars, tickVars, idxVars, albumID, finfo, mvVars, runVars, cancelled, album, files, fstate, workerCount, wg,
                   jobsClosed, resultsClosed, ppc, pidx, linkVars>>

\* results <- uploadResult{...} of worker w meets the consumer's receive
RecvFromWorker(w) ==
    /\ mpc = "consume"
    /\ wpc[w] = "send"
    /\ ~resultsClosed
    /\ Collect(wres[w], wjob[w])
    /\ wpc' = [wpc EXCEPT ![w] = "recv"]
    /\ wjob' = [wjob EXCEPT ![w] = 0]
    /\ wres' = [wres EXCEPT ![w] = NoRes]
    /\ UNCHANGED <<cfgVars, walkVars, lockVars, tickVars, idxVars, albumID, finfo, mvVars, runVars, cancelled, album, mpc, files, fstate, workerCount, wg,
                   jobsClosed, resultsClosed, ppc, pidx, linkVars>>

\* the producer's error result (pre-dispatch stat failed) meets the receive
RecvFromProducer ==
    /\ mpc = "consume"
    /\ ppc = "sendErr"
    /\ ~resultsClosed
    /\ Collect([err |-> TRUE, id |-> 0, dup |-> FALSE], files[pidx])
    /\ ProducerAdvance
    /\ UNCHANGED <<cfgVars, walkVars, lockVars, tickVars, idxVars, albumID, finfo, mvVars, runVars, cancelled, album, mpc, files, fstate, workerCount, wg,
                   jobsClosed, resultsClosed, wpc, wjob, wres, linkVars>>

\* variant of ConsumerEnd: the consumer leaves its loop whether or not
\* results is closed
ConsumerEnd_anyTime ==
    /\ mpc = "consume"
    /\ mpc' = "collected"
    /\ UNCHANGED <<cfgVars, walkVars, lockVars, tickVars, idxVars, albumID, finfo, mvVars, runVars, cancelled, album, files, fstate, pipeVars, consVars,
                   linkVars, tui, log, hist>>

\* the range over results ends on the closed channel
ConsumerEnd ==
    /\ mpc = "consume"
    /\ resultsClosed
    /\ mpc' = "collected"
    /\ UNCHANGED <<cfgVars, walkVars, lockVars, tickVars, idxVars, albumID, finfo, mvVars, runVars, cancelled, album, files, fstate, pipeVars, consVars,
                   linkVars, tui, log, hist>>

\* variant of AfterCollect: the link loop is entered whatever was collected
AfterCollect_noTest ==
    /\ mpc = "collected"
    /\ chunks' = chunk(uploadedIDs, optBatchSize)
    /\ lidx' = 1
    /\ mpc' = "link"
    /\ UNCHANGED <<cfgVars, walkVars, lockVars, tickVars, idxVars, albumID, finfo, mvVars, runVars, cancelled, album, files, fstate, pipeVars,
                   consVars, linkReqs, tui, log, hist>>

\* len(uploadedIDs) == 0 test, then the chunks the link loop ranges over
AfterCollect ==
    /\ mpc = "collected"
    /\ IF Len(uploadedIDs) = 0
       THEN NextEntry /\ UNCHANGED <<cfgVars, walkVars, lockVars, tickVars, idxVars, mvVars, runVars, cancelled, tui>>
       ELSE /\ chunks' = chunk(uploadedIDs, optBatchSize)
            /\ lidx' = 1
            /\ mpc' = "link"
            /\ UNCHANGED <<cfgVars, walkVars, lockVars, tickVars, idxVars, albumID, finfo, mvVars, runVars, cancelled, album, files, fstate, pipeVars,
                           consVars, linkReqs, tui, log, hist>>

\* ---- linking --------------------------------------------------------------

\* variant of LinkRequest: the link loop is left at the first failed request
LinkRequest_break ==
    /\ mpc = "link"
    /\ lidx <= Len(chunks)
    /\ IF Len(chunks[lidx]) = 0
       THEN lidx' = lidx + 1 /\ UNCHANGED <<linkReqs, log>>
       ELSE \E ok \in BOOLEAN :
              LET good == ok /\ ~cancelled
              IN  /\ linkReqs' = Append(linkReqs, [ids |-> chunks[lidx], ok |-> good])
                  /\ log' = IF good THEN log ELSE [log EXCEPT !.linkFailed = @ + 1]
                  /\ lidx' = IF good THEN lidx + 1 ELSE Len(chunks) + 1
    /\ UNCHANGED <<cfgVars, walkVars, lockVars, tickVars, idxVars, albumID, finfo, mvVars, runVars, cancelled, album, mpc, files, fstate, pipeVars,
                   consVars, chunks, tui, hist>>

\* c.addAssetsToAlbum(ctx, albumID, ch) for the next chunk; an empty chunk
\* sends nothing; with ctx done the request can only fail
LinkRequest ==
    /\ mpc = "link"
    /\ lidx <= Len(chunks)
    /\ IF Len(chunks[lidx]) = 0
       THEN UNCHANGED <<linkReqs, log>>
       ELSE \E ok \in BOOLEAN :
              LET good == ok /\ ~cancelled
              IN  /\ linkReqs' = Append(linkReqs, [ids |-> chunks[lidx], ok |-> good])
                  /\ log' = IF good THEN log ELSE [log EXCEPT !.linkFailed = @ + 1]
    /\ lidx' = lidx + 1
    /\ UNCHANGED <<cfgVars, walkVars, lockVars, tickVars, idxVars, albumID, finfo, mvVars, runVars, cancelled, album, mpc, files, fstate, pipeVars,
                   consVars, chunks, tui, hist>>

\* the link loop is over: "Album %s: added %d assets"
LinkDone ==
    /\ mpc = "link"
    /\ lidx > Len(chunks)
    /\ log' = [log EXCEPT !.added = @ + 1]
    /\ mpc' = "albumEnd"
    /\ UNCHANGED <<cfgVars, walkVars, lockVars, tickVars, idxVars, albumID, finfo, mvVars, runVars, cancelled, album, files, fstate, pipeVars, consVars,
                   linkVars, tui, hist>>

\* end of the loop body: in live mode tui.albumName = ""
AlbumEnd ==
    /\ mpc = "albumEnd"
    /\ NextEntry
    /\ tui' = IF tuiEnabled THEN [tui EXCEPT !.albumName = ""] ELSE tui
    /\ UNCHANGED <<cfgVars, walkVars, lockVars, tickVars, idxVars, mvVars, runVars, cancelled>>

\* ---- environment ------------------------------------------------------------

\* variant of TickerStop: the ticker also returns once Run has returned
TickerStop_onReturn ==
    /\ tkpc = "select"
    /\ cancelled \/ mpc \in {"done", "failed"}
    /\ tkpc' = "stopped"
    /\ UNCHANGED <<cfgVars, walkVars, lockVars, ticks, idxVars, albumID, finfo, mvVars, runVars, cancelled, album, mpc, files, fstate, pipeVars, consVars,
                   linkVars, tui, log, hist>>

\* case <-ctx.Done(): return
TickerStop ==
    /\ tkpc = "select"
    /\ cancelled
    /\ tkpc' = "stopped"
    /\ UNCHANGED <<cfgVars, walkVars, lockVars, ticks, idxVars, albumID, finfo, mvVars, runVars, cancelled, album, mpc, files, fstate, pipeVars, consVars,
                   linkVars, tui, log, hist>>

\* case <-t.C: clearAndPrint(renderLine()); when both cases are ready the
\* select takes either
Tick ==
    /\ tkpc = "select"
    /\ ticks' = IF mpc \in {"done", "failed"} /\ ticks < MaxTicks THEN ticks + 1 ELSE ticks
    /\ UNCHANGED <<cfgVars, walkVars, lockVars, tkpc, idxVars, albumID, finfo, mvVars, runVars, cancelled, album, mpc, files, fstate, pipeVars, consVars,
                   linkVars, tui, log, hist>>

TickerStep == TickerStop \/ Tick

\* the caller cancels the context passed to Run, while Run is running or
\* while the ticker it left behind is
Cancel ==
    /\ ~cancelled
    /\ mpc \notin {"done", "failed"} \/ tkpc = "select"
    /\ cancelled' = TRUE
    /\ UNCHANGED <<cfgVars, walkVars, lockVars, tickVars, idxVars, albumID, finfo, mvVars, runVars, album, mpc, files, fstate, pipeVars, consVars,
                   linkVars, tui, log, hist>>

\* ---- specification --------------------------------------------------------

SetupStep ==
    \/ CheckOptions
    \/ ListAlbums
    \/ ReadRoot

MainStep ==
    \/ ResolveAlbum
    \/ EnsureIgnoreDir
    \/ ScanAlbum
    \/ NoMediaSkip
    \/ SkipAlbum
    \/ StartPipeline
    \/ ConsumerEnd
    \/ AfterCollect
    \/ LinkRequest
    \/ LinkDone
    \/ AlbumEnd

ProducerStep ==
    \/ ProducerStat
    \/ ProducerCloseJobs
    \/ ProducerWait
    \/ ProducerCloseResults

WorkerStep(w) ==
    \/ WorkerExit(w)
    \/ WorkerStat(w)
    \/ WorkerUploadCall(w)
    \/ WorkerUploadReturn(w)
    \/ WorkerMove(w)

ChannelStep ==
    \/ \E w \in WorkerIdx : Dispatch(w)
    \/ \E w \in WorkerIdx : RecvFromWorker(w)
    \/ RecvFromProducer

\* the steps of the album loop and of the goroutines it starts
LoopStep ==
    \/ MainStep
    \/ ProducerStep
    \/ \E w \in WorkerIdx : WorkerStep(w)
    \/ ChannelStep

ProgramStep == SetupStep \/ LoopStep

Next == ProgramStep \/ Cancel

\* the run together with the ticker goroutine it starts in live mode
TickNext == Next \/ TickerStep

\* Run from the start of its album loop on
LoopNext == LoopStep \/ Cancel

Spec == Init /\ [][Next]_vars

\* every runnable goroutine is eventually scheduled, and every upload,
\* rename and link call returns
FairSpec == Spec /\ WF_vars(ProgramStep)

\* ---- the run over every kind of root and worker option ---------------------
\* The run in quiet mode with batch size 1, for every opt.Workers from
\* -MaxWorkers to MaxWorkers, with and without fingerprinting, and for every
\* root of NumAlbums entries: files and folders, one of them possibly named
\* IgnoreDir.

WideInit ==
    /\ optAPIKey = TRUE
    /\ optRoot = TRUE
    /\ optWorkers \in (0 - MaxWorkers)..MaxWorkers
    /\ optBatchSize = 1
    /\ optChecksum \in BOOLEAN
    /\ optDeep = TRUE
    /\ optSmallestFirst = FALSE
    /\ fileSizes = {1}
    /\ QuietOptions
    /\ \E p \in 0..NumAlbums, dir \in [1..NumAlbums -> BOOLEAN] :
         entries = RootEntries(p, dir)
    /\ remoteAlbums = {}
    /\ InitRun

WideSpec == WideInit /\ [][Next]_vars

\* ---- the run under every renderer option ------------------------------------
\* The run with one worker and batch size 1 for every value of opt.TUI and
\* opt.TUIAuto, with and without a terminal.

ModeInit ==
    /\ optAPIKey = TRUE
    /\ optRoot = TRUE
    /\ optWorkers = 1
    /\ optBatchSize = 1
    /\ optChecksum = FALSE
    /\ optDeep = TRUE
    /\ optSmallestFirst = FALSE
    /\ fileSizes = {1}
    /\ optTUI \in BOOLEAN
    /\ optTUIAuto \in BOOLEAN
    /\ isTTY \in BOOLEAN
    /\ SelectRenderer
    /\ entries = RootEntries(0, [k \in 1..NumAlbums |-> TRUE])
    /\ remoteAlbums = {}
    /\ InitRun

ModeSpec == ModeInit /\ [][Next]_vars

\* ---- the run against every set of albums on the server ----------------------
\* The run in quiet mode with one worker and batch size 1 over two album
\* folders, the server holding any of the albums named like a folder or
\* like a folder in upper case.

IndexInit ==
    /\ optAPIKey = TRUE
    /\ optRoot = TRUE
    /\ optWorkers = 1
    /\ optBatchSize = 1
    /\ optChecksum = FALSE
    /\ optDeep = TRUE
    /\ optSmallestFirst = FALSE
    /\ fileSizes = {1}
    /\ QuietOptions
    /\ entries = RootEntries(0, [k \in 1..NumAlbums |-> TRUE])
    /\ remoteAlbums \in SUBSET AlbumKeys
    /\ InitRun

IndexSpec == IndexInit /\ [][Next]_vars

\* ---- the run of one album under fair scheduling -----------------------------
\* The run in quiet mode over a root whose only folder is one album, with
\* one or more workers and every batch size; every runnable goroutine is
\* eventually scheduled and every upload, rename and link call returns (an
\* upload call is bound to ctx, the relocation retries a bounded number of
\* times).

CancelInit ==
    /\ optAPIKey = TRUE
    /\ optRoot = TRUE
    /\ optWorkers \in 1..MaxWorkers
    /\ optBatchSize \in 1..MaxBatch
    /\ optChecksum = FALSE
    /\ optDeep = TRUE
    /\ optSmallestFirst = FALSE
    /\ fileSizes = {1}
    /\ QuietOptions
    /\ entries = RootEntries(0, [k \in 1..NumAlbums |-> k = 1])
    /\ remoteAlbums = {}
    /\ InitRun

CancelSpec == CancelInit /\ [][Next]_vars /\ WF_vars(ProgramStep)

\* ---- the run and its ticker ---------------------------------------------------
\* The run with one worker over a root whose only folder is one album, in
\* live and in quiet mode, together with the ticker goroutine; the ticker is
\* scheduled fairly, so once ctx is done its select takes the ctx.Done()
\* case at some point.

TickInit ==
    /\ optAPIKey = TRUE
    /\ optRoot = TRUE
    /\ optWorkers = 1
    /\ optBatchSize = 1
    /\ optChecksum = FALSE
    /\ optDeep = TRUE
    /\ optSmallestFirst = FALSE
    /\ fileSizes = {1}
    /\ optTUI \in BOOLEAN
    /\ optTUIAuto = FALSE
    /\ isTTY = TRUE
    /\ SelectRenderer
    /\ entries = RootEntries(0, [k \in 1..NumAlbums |-> k = 1])
    /\ remoteAlbums = {}
    /\ InitRun

TickSpec ==
    TickInit /\ [][TickNext]_vars /\ WF_vars(ProgramStep) /\ WF_vars(TickerStop)

\* ---- the run with the smallest-first sort -----------------------------------
\* The run in quiet mode with opt.SmallestFirst, over a root whose only
\* folder is one album, for files of every size up to MaxSize, every order
\* of their paths and every outcome of the stats inside the comparator.

SortInit ==
    /\ optAPIKey = TRUE
    /\ optRoot = TRUE
    /\ optWorkers \in 1..MaxWorkers
    /\ optBatchSize = 1
    /\ optChecksum = FALSE
    /\ optDeep = TRUE
    /\ optSmallestFirst = TRUE
    /\ fileSizes = 1..MaxSize
    /\ QuietOptions
    /\ entries = RootEntries(0, [k \in 1..NumAlbums |-> k = 1])
    /\ remoteAlbums = {}
    /\ InitRun

SortSpec == SortInit /\ [][Next]_vars

\* ---- moveFileToIgnore step by step -----------------------------------------
\* Two workers of one album, each holding a file whose upload succeeded, are
\* inside moveFileToIgnore at the same time.  The computed destinations of
\* two files of an album differ (their paths relative to the album folder
\* differ), a destination may be taken by a file parked earlier, the
\* timestamp-suffixed name is not in use, and os.Stat reports a name that is
\* in use as existing.

MaxAttempts == 10
BackoffMs == 150
ERROR_SHARING_VIOLATION == 32
ERROR_LOCK_VIOLATION == 33

Movers == {1, 2}

\* what os.Rename can fail with
RenameErrs ==
    {Err(ERROR_SHARING_VIOLATION, FALSE), Err(ERROR_LOCK_VIOLATION, FALSE),
     Err(13, FALSE), Err(13, TRUE), Err(0, TRUE), Err(0, FALSE)}

\* variant of Retryable: every failed rename is tried again
Retryable_any(e) == TRUE

\* the loop goes on to time.Sleep rather than `break`
Retryable(e) ==
    IF e.errno # 0
    THEN ~(e.errno # ERROR_SHARING_VIOLATION /\ e.errno # ERROR_LOCK_VIOLATION)
    ELSE e.inUse

MvUnchanged ==
    UNCHANGED <<cfgVars, walkVars, lockVars, tickVars, idxVars, albumID, finfo, runVars, tree0, cancelled, album, mpc, files, fstate,
                pipeVars, consVars, linkVars, tui, log, hist>>

\* os.MkdirAll(filepath.Dir(dst)): on an error moveFileToIgnore returns it
MvMkdir(w) ==
    /\ mv[w].pc = "mkdir"
    /\ \E ok \in BOOLEAN :
         mv' = [mv EXCEPT ![w] = IF ok THEN [@ EXCEPT !.pc = "stat"]
                                 ELSE [@ EXCEPT !.pc = "ret", !.err = Err(13, FALSE)]]
    /\ tree' = tree
    /\ MvUnchanged

\* variant of MvStat: the destination is used whether or not it exists
MvStat_blind(w) ==
    /\ mv[w].pc = "stat"
    /\ mv' = [mv EXCEPT ![w] = [@ EXCEPT !.pc = "rename", !.dst = "dst"]]
    /\ tree' = tree
    /\ MvUnchanged

\* the collision test: os.Stat(dst) without error makes dst the suffixed
\* name; then the loop starts with attempt = 0
MvStat(w) ==
    /\ mv[w].pc = "stat"
    /\ mv' = [mv EXCEPT ![w] =
                 [@ EXCEPT !.pc = "rename",
                           !.dst = IF tree[<<"dst", wjob[w]>>] # "free"
                                   THEN "sfx" ELSE "dst"]]
    /\ tree' = tree
    /\ MvUnchanged

\* os.Rename(srcPath, dst) of the loop body: nil returns nil; an error is
\* kept in lastErr and either leads to the sleep or breaks out of the loop.
\* A rename that succeeds replaces whatever is at dst.
MvRename(w) ==
    /\ mv[w].pc = "rename"
    /\ \/ /\ mv' = [mv EXCEPT ![w] = [@ EXCEPT !.pc = "ret", !.err = Nil,
                                                 !.tries = @ + 1]]
          /\ tree' = [tree EXCEPT ![<<mv[w].dst, wjob[w]>>] = "moved"]
       \/ /\ \E e \in RenameErrs :
               mv' = [mv EXCEPT ![w] =
                        IF Retryable(e)
                        THEN [@ EXCEPT !.pc = "sleep", !.lastErr = e, !.tries = @ + 1]
                        ELSE [@ EXCEPT !.pc = "ret", !.lastErr = e, !.err = e,
                                       !.tries = @ + 1]]
          /\ tree' = tree
    /\ MvUnchanged

\* time.Sleep(150 * (attempt+1) ms), attempt++, the attempt < 10 test; past
\* the last attempt moveFileToIgnore returns lastErr
MvSleep(w) ==
    /\ mv[w].pc = "sleep"
    /\ mv' = [mv EXCEPT ![w] =
                 [@ EXCEPT !.waits = Append(@, BackoffMs * (mv[w].attempt + 1)),
                           !.attempt = @ + 1,
                           !.pc = IF mv[w].attempt + 1 < MaxAttempts
                                  THEN "rename" ELSE "ret",
                           !.err = IF mv[w].attempt + 1 < MaxAttempts
                                   THEN Nil ELSE mv[w].lastErr]]
    /\ tree' = tree
    /\ MvUnchanged

\* moveFileToIgnore returns to the worker
MvReturn(w) ==
    /\ mv[w].pc = "ret"
    /\ MoveReturned(w, mv[w].err = Nil)
    /\ UNCHANGED mvVars

MoveStep(w) ==
    \/ MvMkdir(w)
    \/ MvStat(w)
    \/ MvRename(w)
    \/ MvSleep(w)
    \/ MvReturn(w)

MoveNext == \E w \in WorkerIdx : MoveStep(w)

MoveHist == [NoHist EXCEPT !.dispatched = 1, !.upCalls = 1, !.up = "ok", !.upId = 1]

\* quiet mode, first album, two files, two workers: both uploads have
\* succeeded and both workers have called moveFileToIgnore
MoveInit ==
    /\ optAPIKey = TRUE
    /\ optRoot = TRUE
    /\ optWorkers = 2
    /\ optBatchSize = 1
    /\ optChecksum = FALSE
    /\ optDeep = TRUE
    /\ optSmallestFirst = FALSE
    /\ fileSizes = {1}
    /\ QuietOptions
    /\ WalkOff
    /\ LockOff
    /\ entries = RootEntries(0, [k \in 1..NumAlbums |-> TRUE])
    /\ FirstAlbumCreated
    /\ TickerAsStarted
    /\ runErr = "none"
    /\ listSent = TRUE
    /\ skipped = 0
    /\ cancelled = FALSE
    /\ album = 1
    /\ mpc = "consume"
    /\ files = <<1, 2>>
    /\ fstate = [i \in FileIdx |-> IF i \in Movers THEN "orig" ELSE "none"]
    /\ finfo = [i \in FileIdx |-> IF i \in Movers THEN FileInfo(1, i) ELSE FileInfo(0, 0)]
    /\ workerCount = 2
    /\ wg = 2
    /\ jobsClosed = FALSE
    /\ resultsClosed = FALSE
    /\ ppc = "close"
    /\ pidx = 3
    /\ wpc = [w \in WorkerIdx |-> IF w \in Movers THEN "move" ELSE "off"]
    /\ wjob = [w \in WorkerIdx |-> IF w \in Movers THEN w ELSE 0]
    /\ wres = [w \in WorkerIdx |->
                 IF w \in Movers THEN [err |-> FALSE, id |-> 1, dup |-> FALSE]
                 ELSE NoRes]
    /\ completed = 0
    /\ uploadErrors = 0
    /\ uploadedIDs = <<>>
    /\ uploadedBytes = 0
    /\ chunks = <<>>
    /\ lidx = 0
    /\ linkReqs = <<>>
    /\ tui = NoTui
    /\ log = NoLog
    /\ hist = [i \in FileIdx |-> IF i \in Movers THEN MoveHist ELSE NoHist]
    /\ mv = [w \in WorkerIdx |->
               IF w \in Movers THEN [NoMv EXCEPT !.pc = "mkdir"] ELSE NoMv]
    /\ \E taken \in SUBSET Movers :
         tree0 = [n \in TreeNames |->
                    IF n[1] = "dst" /\ n[2] \in taken THEN "old" ELSE "free"]
    /\ tree = tree0

MoveSpec == MoveInit /\ [][MoveNext]_vars

\* ---- filepath.WalkDir over one album folder, call by call -----------------
\* wtree lists the album folder (node 1, depth 0) and what lies beneath it
\* in the order WalkDir reaches it: a directory is followed by its content,
\* which is one level deeper.  Of a name the walk reads whether it starts
\* with "." and whether isMediaFile accepts it.  The album loop tests a
\* root entry for IsDir and for the name opt.IgnoreDir only, so the album
\* folder itself may carry a dot-prefixed name.

WalkNode(dir, dot, media, depth) ==
    [dir |-> dir, dot |-> dot, media |-> media, depth |-> depth]

WalkNodes ==
    {WalkNode(TRUE, dot, FALSE, depth) : dot \in BOOLEAN, depth \in 1..MaxNodes}
    \cup {WalkNode(FALSE, f[1], f[2], depth) :
             f \in BOOLEAN \X BOOLEAN, depth \in 1..MaxNodes}

\* node k + 1 is one level below node k only if node k is a directory, and
\* is never more than one level below it
WalkOrdered(t) ==
    \A k \in 1..(Len(t) - 1) :
        /\ t[k + 1].depth <= t[k].depth + 1
        /\ t[k + 1].depth = t[k].depth + 1 => t[k].dir

WalkTrees ==
    UNION {{<<WalkNode(TRUE, rootDot, FALSE, 0)>> \o t :
              rootDot \in BOOLEAN,
              t \in {u \in [1..m -> WalkNodes] :
                       WalkOrdered(<<WalkNode(TRUE, FALSE, FALSE, 0)>> \o u)}} :
           m \in 0..MaxNodes}

\* the first node after k that is not beneath node k
RECURSIVE SubtreeEnd(_, _, _)
SubtreeEnd(t, k, j) ==
    IF j > Len(t) \/ t[j].depth <= t[k].depth THEN j
    ELSE SubtreeEnd(t, k, j + 1)

WalkUnchanged ==
    UNCHANGED <<cfgVars, lockVars, tickVars, idxVars, albumID, runVars, mvVars, cancelled, album,
                mpc, files, fstate, finfo, pipeVars, consVars, linkVars, tui, log, hist,
                wtree>>

\* the walk goes on at node k, or WalkDir returns nil
WalkOn(k) ==
    /\ widx' = k
    /\ wstat' = IF k > Len(wtree) THEN "done" ELSE "walking"

\* variant of WalkVisit: the "." prefix of a file name is not tested
WalkVisit_noDotTest ==
    /\ wstat = "walking"
    /\ LET d == wtree[widx]
       IN  IF d.dir
           THEN IF widx # 1 /\ ~optDeep
                THEN WalkOn(SubtreeEnd(wtree, widx, widx + 1)) /\ wfiles' = wfiles
                ELSE \E readOk \in BOOLEAN :
                       /\ wfiles' = wfiles
                       /\ IF readOk THEN WalkOn(widx + 1)
                          ELSE wstat' = "failed" /\ widx' = widx
           ELSE /\ WalkOn(widx + 1)
                /\ wfiles' = IF ~d.media THEN wfiles ELSE Append(wfiles, widx)
    /\ WalkUnchanged

\* variant of WalkVisit: without opt.Deep a subdirectory is entered all the
\* same
WalkVisit_noPrune ==
    /\ wstat = "walking"
    /\ LET d == wtree[widx]
       IN  IF d.dir
           THEN \E readOk \in BOOLEAN :
                  /\ wfiles' = wfiles
                  /\ IF readOk THEN WalkOn(widx + 1)
                     ELSE wstat' = "failed" /\ widx' = widx
           ELSE /\ WalkOn(widx + 1)
                /\ wfiles' = IF d.dot \/ ~d.media THEN wfiles ELSE Append(wfiles, widx)
    /\ WalkUnchanged

\* one node of the walk.  A directory: walkFn returns filepath.SkipDir for a
\* directory other than the album folder when opt.Deep is off, and nil
\* otherwise, whatever its name; WalkDir then reads the directory and on an
\* error calls walkFn with it, which returns it and ends the walk.  A file:
\* the "." prefix test, the isMediaFile test, the append.
WalkVisit ==
    /\ wstat = "walking"
    /\ LET d == wtree[widx]
       IN  IF d.dir
           THEN IF widx # 1 /\ ~optDeep
                THEN WalkOn(SubtreeEnd(wtree, widx, widx + 1)) /\ wfiles' = wfiles
                ELSE \E readOk \in BOOLEAN :
                       /\ wfiles' = wfiles
                       /\ IF readOk THEN WalkOn(widx + 1)
                          ELSE wstat' = "failed" /\ widx' = widx
           ELSE /\ WalkOn(widx + 1)
                /\ wfiles' = IF d.dot \/ ~d.media THEN wfiles ELSE Append(wfiles, widx)
    /\ WalkUnchanged

WalkNext == WalkVisit

\* quiet mode, the first album, at its filepath.WalkDir call, for every
\* album folder of up to MaxNodes nodes and both values of opt.Deep
WalkInit ==
    /\ optAPIKey = TRUE
    /\ optRoot = TRUE
    /\ optWorkers = 1
    /\ optBatchSize = 1
    /\ optChecksum = FALSE
    /\ optDeep \in BOOLEAN
    /\ optSmallestFirst = FALSE
    /\ fileSizes = {1}
    /\ QuietOptions
    /\ entries = RootEntries(0, [k \in 1..NumAlbums |-> TRUE])
    /\ FirstAlbumCreated
    /\ TickerAsStarted
    /\ runErr = "none"
    /\ listSent = TRUE
    /\ skipped = 0
    /\ mv = [w \in WorkerIdx |-> NoMv]
    /\ tree = EmptyTree
    /\ tree0 = EmptyTree
    /\ cancelled = FALSE
    /\ album = 1
    /\ mpc = "scan"
    /\ files = <<>>
    /\ fstate = [i \in FileIdx |-> "none"]
    /\ finfo = NoInfo
    /\ workerCount = 0
    /\ wg = 0
    /\ jobsClosed = FALSE
    /\ resultsClosed = FALSE
    /\ ppc = "off"
    /\ pidx = 0
    /\ wpc = [w \in WorkerIdx |-> "off"]
    /\ wjob = [w \in WorkerIdx |-> 0]
    /\ wres = [w \in WorkerIdx |-> NoRes]
    /\ completed = 0
    /\ uploadErrors = 0
    /\ uploadedIDs = <<>>
    /\ uploadedBytes = 0
    /\ chunks = <<>>
    /\ lidx = 0
    /\ linkReqs = <<>>
    /\ tui = NoTui
    /\ log = NoLog
    /\ hist = [i \in FileIdx |-> NoHist]
    /\ LockOff
    /\ wtree \in WalkTrees
    /\ widx = 1
    /\ wfiles = <<>>
    /\ wstat = "walking"

WalkSpec == WalkInit /\ [][WalkNext]_vars

\* ---- the accesses of tui, statement by statement ---------------------------
\* Every section of Run that touches a field of tui, as the list of its
\* statements: tui.Lock(), the reads and writes of fields, tui.Unlock().
\* The goroutines of one album in live mode go through their sections in any
\* order and interleave statement by statement.

St(op, field) == [op |-> op, field |-> field]

\* variant of SiteCode: at the end of an album tui.albumName is cleared
\* without the lock
SiteCode_bareAlbumEnd(site) ==
    CASE site = "movedFail" ->
           <<St("lock", ""), St("write", "globalMovedFail"), St("unlock", "")>>
      [] site = "failed" ->
           <<St("lock", ""), St("write", "globalFailed"), St("unlock", "")>>
      [] site = "counted" ->
           <<St("lock", ""), St("write", "globalFiles"), St("write", "globalDup"),
             St("unlock", "")>>
      [] site = "progress" ->
           <<St("lock", ""), St("write", "albumDone"), St("write", "albumBytes"),
             St("read", "globalBytes"), St("write", "globalBytes"), St("unlock", "")>>
      [] site = "albumEnd" ->
           <<St("write", "albumName")>>
      [] site = "send" -> <<St("send", "results")>>
      [] site = "recv" -> <<St("recv", "results")>>
      [] site = "tick" -> <<St("recv", "t.C")>>
      [] site = "render" ->
           <<St("lock", ""), St("read", "albumName"), St("read", "globalStart"),
             St("read", "globalAlbums"), St("read", "globalFiles"),
             St("read", "globalDup"), St("read", "globalFailed"),
             St("read", "globalMovedFail"), St("read", "globalBytes"),
             St("unlock", "")>>

\* variant of SiteCode: the worker logs the failed relocation, and so
\* renders, with the lock held
SiteCode_eventInLock(site) ==
    CASE site = "movedFail" ->
           <<St("lock", ""), St("write", "globalMovedFail"),
             St("lock", ""), St("read", "albumName"), St("unlock", ""),
             St("unlock", "")>>
      [] site = "failed" ->
           <<St("lock", ""), St("write", "globalFailed"), St("unlock", "")>>
      [] site = "counted" ->
           <<St("lock", ""), St("write", "globalFiles"), St("write", "globalDup"),
             St("unlock", "")>>
      [] site = "progress" ->
           <<St("lock", ""), St("write", "albumDone"), St("write", "albumBytes"),
             St("read", "globalBytes"), St("write", "globalBytes"), St("unlock", "")>>
      [] site = "albumEnd" ->
           <<St("lock", ""), St("write", "albumName"), St("unlock", "")>>
      [] site = "send" -> <<St("send", "results")>>
      [] site = "recv" -> <<St("recv", "results")>>
      [] site = "tick" -> <<St("recv", "t.C")>>
      [] site = "render" ->
           <<St("lock", ""), St("read", "albumName"), St("read", "globalStart"),
             St("read", "globalAlbums"), St("read", "globalFiles"),
             St("read", "globalDup"), St("read", "globalFailed"),
             St("read", "globalMovedFail"), St("read", "globalBytes"),
             St("unlock", "")>>

\* movedFail: the worker after a failed relocation; failed, counted,
\* progress: the consumer on an error result and (twice) on a success
\* result; albumEnd: the end of the loop body; render: renderLine, with the
\* reads of its tui.albumName == "" branch (the name is never set) and the
\* deferred unlock; send: the worker's send of its result; recv: the
\* consumer's receive at the top of its loop; tick: the ticker's receive
\* from its timer
SiteCode(site) ==
    CASE site = "movedFail" ->
           <<St("lock", ""), St("write", "globalMovedFail"), St("unlock", "")>>
      [] site = "failed" ->
           <<St("lock", ""), St("write", "globalFailed"), St("unlock", "")>>
      [] site = "counted" ->
           <<St("lock", ""), St("write", "globalFiles"), St("write", "globalDup"),
             St("unlock", "")>>
      [] site = "progress" ->
           <<St("lock", ""), St("write", "albumDone"), St("write", "albumBytes"),
             St("read", "globalBytes"), St("write", "globalBytes"), St("unlock", "")>>
      [] site = "albumEnd" ->
           <<St("lock", ""), St("write", "albumName"), St("unlock", "")>>
      [] site = "send" -> <<St("send", "results")>>
      [] site = "recv" -> <<St("recv", "results")>>
      [] site = "tick" -> <<St("recv", "t.C")>>
      [] site = "render" ->
           <<St("lock", ""), St("read", "albumName"), St("read", "globalStart"),
             St("read", "globalAlbums"), St("read", "globalFiles"),
             St("read", "globalDup"), St("read", "globalFailed"),
             St("read", "globalMovedFail"), St("read", "globalBytes"),
             St("unlock", "")>>

\* the sections goroutine g runs: a worker counts a failed relocation and,
\* through eventf, renders; main consumes results, ends albums and, through
\* eventf and after a success result, renders; the ticker renders
SitesOf(g) ==
    CASE g[1] = "worker" -> {"movedFail", "render", "send"}
      [] g[1] = "main" -> {"failed", "counted", "progress", "albumEnd", "render", "recv"}
      [] g[1] = "ticker" -> {"render", "tick"}

\* the statement goroutine g is at
AtStatement(g) == SiteCode(lk[g].site)[lk[g].pc]

LkUnchanged ==
    UNCHANGED <<cfgVars, walkVars, tickVars, idxVars, albumID, runVars, mvVars, cancelled, album,
                mpc, files, fstate, finfo, pipeVars, consVars, linkVars, tui, log, hist>>

\* goroutine g has executed the statement it was at
LkAdvance(g) ==
    lk' = [lk EXCEPT ![g] = IF lk[g].pc = Len(SiteCode(lk[g].site))
                            THEN OutOfSection
                            ELSE [@ EXCEPT !.pc = @ + 1]]

\* goroutine g reaches one of its sections
LkEnter(g) ==
    /\ lk[g] = OutOfSection
    /\ \E site \in SitesOf(g) : lk' = [lk EXCEPT ![g] = [site |-> site, pc |-> 1]]
    /\ tuiLock' = tuiLock
    /\ LkUnchanged

\* tui.Lock() returns: the mutex was free
LkLock(g) ==
    /\ lk[g] # OutOfSection
    /\ AtStatement(g).op = "lock"
    /\ tuiLock = NoG
    /\ tuiLock' = g
    /\ LkAdvance(g)
    /\ LkUnchanged

\* a read or a write of a field of tui
LkAccess(g) ==
    /\ lk[g] # OutOfSection
    /\ AtStatement(g).op \in {"read", "write"}
    /\ tuiLock' = tuiLock
    /\ LkAdvance(g)
    /\ LkUnchanged

\* tui.Unlock()
LkUnlock(g) ==
    /\ lk[g] # OutOfSection
    /\ AtStatement(g).op = "unlock"
    /\ tuiLock' = NoG
    /\ LkAdvance(g)
    /\ LkUnchanged

\* results <- uploadResult{...} of worker w meets the consumer's receive
LkSend(w) ==
    /\ lk[<<"worker", w>>] # OutOfSection
    /\ AtStatement(<<"worker", w>>).op = "send"
    /\ lk[<<"main", 0>>] # OutOfSection
    /\ AtStatement(<<"main", 0>>).op = "recv"
    /\ lk' = [lk EXCEPT ![<<"worker", w>>] = OutOfSection, ![<<"main", 0>>] = OutOfSection]
    /\ tuiLock' = tuiLock
    /\ LkUnchanged

\* the consumer receives the producer's error result, or the ticker a tick
\* of its timer
LkRecv(g) ==
    /\ g[1] \in {"main", "ticker"}
    /\ lk[g] # OutOfSection
    /\ AtStatement(g).op = "recv"
    /\ tuiLock' = tuiLock
    /\ LkAdvance(g)
    /\ LkUnchanged

LockStep(g) ==
    \/ LkEnter(g)
    \/ LkLock(g)
    \/ LkAccess(g)
    \/ LkUnlock(g)
    \/ LkRecv(g)

LockNext ==
    \/ \E g \in Goroutines : LockStep(g)
    \/ \E w \in WorkerIdx : LkSend(w)

\* live mode, the pipeline of the first album has just been started
LockInit ==
    /\ optAPIKey = TRUE
    /\ optRoot = TRUE
    /\ optWorkers = MaxWorkers
    /\ optBatchSize = 1
    /\ optChecksum = FALSE
    /\ optDeep = TRUE
    /\ optSmallestFirst = FALSE
    /\ fileSizes = {1}
    /\ optTUI = TRUE
    /\ optTUIAuto = FALSE
    /\ isTTY = TRUE
    /\ SelectRenderer
    /\ entries = RootEntries(0, [k \in 1..NumAlbums |-> TRUE])
    /\ FirstAlbumCreated
    /\ TickerAsStarted
    /\ runErr = "none"
    /\ listSent = TRUE
    /\ skipped = 0
    /\ mv = [w \in WorkerIdx |-> NoMv]
    /\ tree = EmptyTree
    /\ tree0 = EmptyTree
    /\ cancelled = FALSE
    /\ album = 1
    /\ mpc = "consume"
    /\ files = [i \in FileIdx |-> i]
    /\ fstate = [i \in FileIdx |-> "orig"]
    /\ finfo = [i \in FileIdx |-> FileInfo(1, i)]
    /\ workerCount = MaxWorkers
    /\ wg = MaxWorkers
    /\ jobsClosed = FALSE
    /\ resultsClosed = FALSE
    /\ ppc = "stat"
    /\ pidx = 1
    /\ wpc = [w \in WorkerIdx |-> "recv"]
    /\ wjob = [w \in WorkerIdx |-> 0]
    /\ wres = [w \in WorkerIdx |-> NoRes]
    /\ completed = 0
    /\ uploadErrors = 0
    /\ uploadedIDs = <<>>
    /\ uploadedBytes = 0
    /\ chunks = <<>>
    /\ lidx = 0
    /\ linkReqs = <<>>
    /\ tui = NoTui
    /\ log = NoLog
    /\ hist = [i \in FileIdx |-> NoHist]
    /\ WalkOff
    /\ LockOff

LockSpec == LockInit /\ [][LockNext]_vars

\* ---- the link phase on its own ------------------------------------------
\* The run in quiet mode with one worker, at the end of the consumer loop
\* of its first album, for every album of 1..MaxLinkFiles files and every
\* outcome per file (0: error result, otherwise the asset id of its success
\* result, the file relocated), the results received in file order.

LinkHist(o) ==
    IF o = 0
    THEN [NoHist EXCEPT !.dispatched = 1, !.upCalls = 1, !.up = "fail",
                        !.nres = 1, !.resErr = TRUE]
    ELSE [NoHist EXCEPT !.dispatched = 1, !.upCalls = 1, !.up = "ok", !.upId = o,
                        !.mvCalls = 1, !.nres = 1]

LinkInit ==
    /\ optAPIKey = TRUE
    /\ optRoot = TRUE
    /\ optWorkers = 1
    /\ optBatchSize \in -MaxLinkBatch..MaxLinkBatch
    /\ optChecksum = FALSE
    /\ optDeep = TRUE
    /\ optSmallestFirst = FALSE
    /\ fileSizes = {1}
    /\ QuietOptions
    /\ WalkOff
    /\ LockOff
    /\ entries = RootEntries(0, [k \in 1..NumAlbums |-> TRUE])
    /\ FirstAlbumCreated
    /\ TickerAsStarted
    /\ runErr = "none"
    /\ listSent = TRUE
    /\ skipped = 0
    /\ mv = [w \in WorkerIdx |-> NoMv]
    /\ tree = EmptyTree
    /\ tree0 = EmptyTree
    /\ cancelled = FALSE
    /\ album = 1
    /\ mpc = "collected"
    /\ \E n \in 1..MaxLinkFiles :
         \E outcome \in [1..n -> 0..MaxAsset] :
             /\ files = [i \in 1..n |-> i]
             /\ fstate = [i \in 1..n |-> IF outcome[i] = 0 THEN "orig" ELSE "parked"]
             /\ finfo = [i \in 1..n |-> FileInfo(1, i)]
             /\ hist = [i \in 1..n |-> LinkHist(outcome[i])]
             /\ uploadedIDs = SelectSeq(outcome, LAMBDA o : o # 0)
             /\ uploadedBytes = Len(uploadedIDs)
             /\ uploadErrors = n - Len(uploadedIDs)
             /\ log = [NoLog EXCEPT !.uploadFailed = uploadErrors]
             /\ completed = n
             /\ pidx = n + 1
    /\ workerCount = 1
    /\ wg = 0
    /\ jobsClosed = TRUE
    /\ resultsClosed = TRUE
    /\ ppc = "done"
    /\ wpc = [w \in WorkerIdx |-> IF w = 1 THEN "exit" ELSE "off"]
    /\ wjob = [w \in WorkerIdx |-> 0]
    /\ wres = [w \in WorkerIdx |-> NoRes]
    /\ chunks = <<>>
    /\ lidx = 0
    /\ linkReqs = <<>>
    /\ tui = NoTui

LinkSpec == LinkInit /\ [][LoopNext]_vars

\* ---- observation helpers --------------------------------------------------

FilesOf == {files[k] : k \in DOMAIN files}

\* the consumer loop of the current album has ended
PipelineOver == mpc \in {"collected", "link", "albumEnd"}

\* file i has had a success result received by the consumer
Succ(i) == hist[i].nres = 1 /\ ~hist[i].resErr

\* file i has had an error result received by the consumer
Failed(i) == hist[i].nres = 1 /\ hist[i].resErr

CountIn(seq, x) == Cardinality({k \in DOMAIN seq : seq[k] = x})

RECURSIVE Flatten(_)
Flatten(ss) == IF ss = <<>> THEN <<>> ELSE Head(ss) \o Flatten(Tail(ss))

RECURSIVE SumNres(_)
SumNres(S) ==
    IF S = {} THEN 0
    ELSE LET x == CHOOSE y \in S : TRUE
         IN  hist[x].nres + SumNres(S \ {x})

ReqIds == [k \in DOMAIN linkReqs |-> linkReqs[k].ids]

\* ---- C1 -------------------------------------------------------------------
\* C1: every file of the album's list has exactly one result received by the
\* consumer once the consumer loop has ended, whichever of the four paths
\* produced it; no file is dispatched or answered twice, no result is
\* received for anything outside the list, and `completed` counts exactly
\* the results received.
C1_ExactlyOneResult ==
    /\ \A i \in DOMAIN hist : hist[i].nres <= 1 /\ hist[i].dispatched <= 1
    /\ \A i \in DOMAIN hist : hist[i].nres > 0 => i \in FilesOf
    /\ completed = SumNres(DOMAIN hist)
    /\ PipelineOver => \A i \in FilesOf : hist[i].nres = 1

\* two workers, consumer loop over, one result from the producer's failed
\* stat and one from a successful upload
C1_Witness ==
    /\ mpc = "collected"
    /\ workerCount = 2
    /\ \E i, j \in FilesOf :
         /\ hist[i].dispatched = 0 /\ hist[i].nres = 1
         /\ hist[j].up = "ok" /\ hist[j].nres = 1

\* ---- C2 -------------------------------------------------------------------
\* C2: under fair scheduling every started pipeline reaches the end of the
\* consumer loop, and there the job queue is closed, every worker has
\* exited, the result stream is closed and the number of results received
\* equals the number of files.
C2_PipelineTerminates ==
    /\ (mpc = "consume") ~> (mpc = "collected")
    /\ [](mpc = "collected" =>
            /\ jobsClosed /\ resultsClosed /\ ppc = "done" /\ wg = 0
            /\ \A w \in WorkerIdx : wpc[w] = (IF w <= workerCount THEN "exit" ELSE "off")
            /\ completed = Len(files))

\* a two-worker pipeline over two files has run to the end of the consumer loop
C2_Witness ==
    /\ mpc = "collected"
    /\ workerCount = 2
    /\ Len(files) = 2
    /\ completed = 2
    /\ resultsClosed

\* ---- C3 -------------------------------------------------------------------
\* C3: when the consumer loop is over, uploadedIDs - the list the link loop
\* chunks and sends - holds one entry per success result of this album, the
\* asset id that file's upload returned, and nothing else; the chunks the
\* link loop ranges over concatenate to that list.
C3_LinkedIdsAreSuccesses ==
    PipelineOver =>
        /\ \A k \in DOMAIN uploadedIDs : uploadedIDs[k] \in AssetIds
        /\ Len(uploadedIDs) = Cardinality({i \in FilesOf : Succ(i)})
        /\ \A id \in AssetIds :
             CountIn(uploadedIDs, id) =
                 Cardinality({i \in FilesOf : Succ(i) /\ hist[i].upId = id})
        /\ mpc \in {"link", "albumEnd"} => Flatten(chunks) = uploadedIDs

\* linking starts for the second album with one success and one failure
C3_Witness ==
    /\ mpc = "link"
    /\ album = 2
    /\ Len(uploadedIDs) = 1
    /\ \E i \in FilesOf : Failed(i)

\* ---- C4 -------------------------------------------------------------------
\* C4 as claimed: once a file's result is in, it is relocated if and only if
\* its upload succeeded.
C4_Original ==
    \A i \in DOMAIN hist :
        hist[i].nres = 1 => (fstate[i] = "parked" <=> hist[i].up = "ok")

\* C4 as amended: a file is relocated only if its upload succeeded; a
\* relocation is attempted, once, exactly for the files whose upload
\* succeeded; such a file is relocated unless that attempt failed, and
\* then it stays at its original path.
C4_RelocationFollowsSuccess ==
    \A i \in DOMAIN hist :
        /\ fstate[i] = "parked" => hist[i].up = "ok"
        /\ hist[i].mvCalls <= 1
        /\ hist[i].mvCalls = 1 => hist[i].up = "ok"
        /\ hist[i].nres = 1 =>
             /\ hist[i].up = "ok" <=> hist[i].mvCalls = 1
             /\ fstate[i] = "parked" <=> (hist[i].up = "ok" /\ ~hist[i].mvFailLogged)
             /\ fstate[i] # "parked" => fstate[i] = "orig"

\* one file uploaded and relocated, another uploaded but left in place by a
\* failed relocation
C4_Witness ==
    \E i, j \in FilesOf :
        /\ Succ(i) /\ fstate[i] = "parked"
        /\ Succ(j) /\ fstate[j] = "orig"

\* ---- C5 -------------------------------------------------------------------
\* C5: for every success result, from the moment the worker emits it, the
\* file is no longer at its original path, or a relocation-failure event was
\* logged for it and it is still there; one such event is logged per failed
\* relocation.
MovedOrLogged(i) ==
    \/ fstate[i] = "parked"
    \/ hist[i].mvFailLogged /\ fstate[i] = "orig"

C5_SuccessMeansMovedOrLogged ==
    /\ \A w \in WorkerIdx :
         (wpc[w] = "send" /\ ~wres[w].err) => MovedOrLogged(wjob[w])
    /\ \A i \in DOMAIN hist : Succ(i) => MovedOrLogged(i)
    /\ log.moveFailed = Cardinality({i \in DOMAIN hist : hist[i].mvFailLogged})

\* a worker is emitting a success result for a file whose relocation failed
C5_Witness ==
    \E w \in WorkerIdx :
        /\ wpc[w] = "send"
        /\ ~wres[w].err
        /\ hist[wjob[w]].mvFailLogged
        /\ fstate[wjob[w]] = "orig"

\* ---- C6 -------------------------------------------------------------------
\* C6: a failed upload gives that file one error result, counted and logged
\* once, and the file is neither moved nor offered to moveFileToIgnore; once
\* the consumer loop is over every file of the album has its result and a
\* file without an upload call has an error result (its stat failed); with
\* at least one success the loop goes on to link, one request per chunk
\* covering all collected ids; and the album loop only ends past the last
\* entry.
C6_State ==
    /\ \A i \in DOMAIN hist :
         hist[i].up = "fail" =>
             /\ fstate[i] = "orig"
             /\ hist[i].mvCalls = 0
             /\ hist[i].nres <= 1
             /\ hist[i].nres = 1 => hist[i].resErr
    /\ uploadErrors = Cardinality({i \in DOMAIN hist : Failed(i)})
    /\ log.uploadFailed = uploadErrors
    /\ PipelineOver =>
         \A j \in FilesOf :
             /\ hist[j].nres = 1
             /\ hist[j].upCalls <= 1
             /\ hist[j].upCalls = 0 => hist[j].resErr
    /\ mpc = "albumEnd" =>
         /\ Len(linkReqs) >= 1
         /\ Flatten(ReqIds) = uploadedIDs
    /\ mpc = "done" => album = NumAlbums + 1

C6_Step ==
    (mpc = "collected" /\ mpc' # mpc /\ \E i \in FilesOf : Succ(i)) => mpc' = "link"

C6_UploadFailureIsLocal == [](C6_State) /\ [][C6_Step]_vars

\* an album ends with one failed upload, one successful one, and the link
\* request for the success sent
C6_Witness ==
    /\ mpc = "albumEnd"
    /\ \E i, j \in FilesOf :
         /\ hist[i].up = "fail" /\ Failed(i)
         /\ hist[j].up = "ok" /\ Succ(j)
    /\ Len(linkReqs) = 1
    /\ Len(linkReqs[1].ids) = 1

\* ---- C7 -------------------------------------------------------------------
\* C7: uploadAsset is called at most once per file, and no two workers hold
\* the same file at the same time.
C7_AtMostOneUploadCall ==
    /\ \A i \in DOMAIN hist : hist[i].upCalls <= 1
    /\ \A v, w \in WorkerIdx :
         (v # w /\ wjob[v] # 0) => wjob[v] # wjob[w]

\* with two workers, a file's only upload call failed and its error result
\* is in, while the other file is still with a worker
C7_Witness ==
    /\ mpc = "consume"
    /\ workerCount = 2
    /\ \E i \in FilesOf : hist[i].up = "fail" /\ hist[i].upCalls = 1 /\ Failed(i)
    /\ \E w \in WorkerIdx : wjob[w] # 0

\* ---- C8 -------------------------------------------------------------------
\* a worker lets go of its job only by having its result received
JobHeldUntilResult ==
    \A w \in WorkerIdx :
        (wjob[w] # 0 /\ wjob'[w] # wjob[w]) =>
            hist'[wjob[w]].nres = hist[wjob[w]].nres + 1

\* no job goes from the producer to a worker once ctx is done
NoDispatchAfterCancel ==
    cancelled => \A i \in DOMAIN hist : hist'[i].dispatched <= hist[i].dispatched

\* C8 as claimed: after cancellation no job is dispatched, and a worker
\* holding a job emits its result before letting go of it.
C8_Original == [][NoDispatchAfterCancel /\ JobHeldUntilResult]_vars

\* an upload call made with ctx done returns an error
CallAfterCancelFails ==
    \A w \in WorkerIdx :
        /\ (cancelled /\ wpc[w] = "upload" /\ wpc'[w] = "uploading") => wres'[w].err
        /\ (wpc[w] = "uploading" /\ wres[w].err /\ wpc'[w] # "uploading") =>
               (wpc'[w] = "send" /\ wres'[w].err)

\* C8 as amended: the producer does not look at ctx, so jobs are still
\* dispatched after cancellation; but an upload call made after the
\* cancellation fails, so a file dispatched after it is never uploaded
\* successfully nor relocated and gets an error result; and a worker holding
\* a job emits its result before letting go of it.
C8_CancelFailsLateUploads ==
    /\ [](\A i \in DOMAIN hist :
            hist[i].late =>
                /\ hist[i].up # "ok"
                /\ fstate[i] = "orig"
                /\ hist[i].nres = 1 => hist[i].resErr)
    /\ [][JobHeldUntilResult /\ CallAfterCancelFails]_vars

\* a file dispatched after the cancellation had its upload called, which
\* failed, and its error result received
C8_Witness ==
    /\ cancelled
    /\ \E i \in FilesOf :
         hist[i].late /\ hist[i].upCalls = 1 /\ hist[i].up = "fail" /\ Failed(i)

\* ---- C9 -------------------------------------------------------------------
\* C9: with N >= 1 collected ids and batch size B >= 1, when the link loop
\* is over exactly ceil(N/B) link requests have been sent, each with between
\* 1 and B ids, and the batches in request order concatenate to the id list.
C9_CeilBatches ==
    (mpc = "albumEnd" /\ optBatchSize >= 1) =>
        LET N == Len(uploadedIDs)
            B == optBatchSize
        IN  /\ N >= 1
            /\ Len(linkReqs) = (N + B - 1) \div B
            /\ \A k \in DOMAIN linkReqs :
                 Len(linkReqs[k].ids) >= 1 /\ Len(linkReqs[k].ids) <= B
            /\ Flatten(ReqIds) = uploadedIDs

\* three ids in batches of two: a full batch, then the rest
C9_Witness ==
    /\ mpc = "albumEnd"
    /\ optBatchSize = 2
    /\ Len(uploadedIDs) = 3
    /\ Len(linkReqs) = 2
    /\ Len(linkReqs[1].ids) = 2
    /\ Len(linkReqs[2].ids) = 1

\* ---- C10 ------------------------------------------------------------------
\* C10: whatever requests fail, request k of the link loop carries chunk k,
\* the loop ends only after one request per chunk, every failed request is
\* logged once, and from the end of the link loop the album loop goes on to
\* the next entry; it only ends past the last entry.
C10_State ==
    /\ mpc \in {"link", "albumEnd"} =>
         /\ Len(linkReqs) = lidx - 1
         /\ \A k \in DOMAIN linkReqs : linkReqs[k].ids = chunks[k]
    /\ mpc = "albumEnd" => Len(linkReqs) = Len(chunks)
    /\ log.linkFailed = Cardinality({k \in DOMAIN linkReqs : ~linkReqs[k].ok})
    /\ mpc = "done" => album = NumAlbums + 1

C10_Step ==
    (mpc = "albumEnd" /\ mpc' # mpc) =>
        /\ album' = album + 1
        /\ mpc' = IF album + 1 > NumAlbums THEN "done" ELSE "resolve"

C10_LinkFailureIsLocal == [](C10_State) /\ [][C10_Step]_vars

\* the first of three link requests failed and the other two were still sent
C10_Witness ==
    /\ mpc = "albumEnd"
    /\ Len(linkReqs) = 3
    /\ ~linkReqs[1].ok
    /\ linkReqs[3].ok
    /\ log.linkFailed >= 1

\* ---- C11 ------------------------------------------------------------------
\* a step that logs a relocation failure (the log is not being reset)
MoveFailureStep == log'.moveFailed = log.moveFailed + 1

\* C11 as claimed: a failed relocation increments the relocation-failure
\* counter.
C11_Original ==
    [][MoveFailureStep => tui'.globalMovedFail = tui.globalMovedFail + 1]_vars

\* C11 as amended: a file whose relocation failed stays at its original path
\* and its result is a success carrying the id its upload returned, which is
\* in the list that is linked; the failure is logged as a relocation-failure
\* event, one per failed relocation, and counted in the relocation-failure
\* counter in live mode only (in quiet mode no counter changes); neither the
\* album's upload-failure count nor the upload-failure counter moves.
C11_RelocationFailureKeepsSuccess ==
    /\ [](/\ \A i \in DOMAIN hist :
               hist[i].mvFailLogged =>
                   /\ fstate[i] = "orig"
                   /\ hist[i].up = "ok"
                   /\ hist[i].nres = 1 => ~hist[i].resErr
                   /\ PipelineOver => CountIn(uploadedIDs, hist[i].upId) >= 1
                   /\ mpc = "albumEnd" => CountIn(Flatten(ReqIds), hist[i].upId) >= 1
          /\ \A w \in WorkerIdx :
               (wpc[w] = "send" /\ hist[wjob[w]].mvFailLogged) =>
                   (~wres[w].err /\ wres[w].id = hist[wjob[w]].upId)
          /\ log.moveFailed = Cardinality({i \in DOMAIN hist : hist[i].mvFailLogged})
          /\ uploadErrors = Cardinality({i \in DOMAIN hist : hist[i].nres = 1 /\ hist[i].up # "ok"}))
    /\ [][MoveFailureStep =>
            /\ uploadErrors' = uploadErrors
            /\ log'.uploadFailed = log.uploadFailed
            /\ tui'.globalFailed = tui.globalFailed
            /\ tui'.globalMovedFail =
                   tui.globalMovedFail + (IF tuiEnabled THEN 1 ELSE 0)]_vars

\* live mode: an album ends with no upload failure, the id of a file whose
\* relocation failed linked, the file in place and the failure counted
C11_Witness ==
    /\ mpc = "albumEnd"
    /\ tuiEnabled
    /\ uploadErrors = 0
    /\ tui.globalFailed = 0
    /\ tui.globalMovedFail = 1
    /\ log.moveFailed = 1
    /\ \E i \in FilesOf :
         /\ hist[i].mvFailLogged /\ Succ(i) /\ fstate[i] = "orig"
         /\ \E k \in DOMAIN linkReqs :
              CountIn(linkReqs[k].ids, hist[i].upId) >= 1

\* ---- C14 ------------------------------------------------------------------
InFlight == {w \in WorkerIdx : wpc[w] = "uploading"}

Started == {w \in WorkerIdx : wpc[w] # "off"}

\* no goroutine of an album is running
NoGoroutineLive ==
    /\ ppc \in {"off", "done"}
    /\ \A w \in WorkerIdx : wpc[w] \in {"off", "exit"}

\* C14: while the main goroutine is before an album's pipeline nothing of
\* that album has started; from the end of the consumer loop on the result
\* stream is closed and the producer and every worker have ended, so the
\* link requests, made one after the other by the main goroutine, run with
\* no upload or relocation going on; the loop moves to another entry only
\* with no goroutine live and no chunk left to link; and at every instant
\* the uploads in flight are at most workerCount.
C14_State ==
    /\ mpc \in {"checkOpts", "list", "readRoot", "resolve", "mkdir", "scan",
                "noMedia", "spawn", "skip", "done", "failed"} =>
         /\ ppc = "off"
         /\ \A w \in WorkerIdx : wpc[w] = "off"
         /\ linkReqs = <<>>
         /\ \A i \in DOMAIN hist : hist[i].upCalls = 0 /\ hist[i].mvCalls = 0
    /\ PipelineOver => (resultsClosed /\ NoGoroutineLive)
    /\ mpc # "link" => lidx \in {0, Len(chunks) + 1}
    /\ Cardinality(InFlight) <= workerCount
    /\ Cardinality(Started) <= workerCount

C14_Step ==
    (album' # album) =>
        /\ NoGoroutineLive
        /\ lidx \in {0, Len(chunks) + 1}
        /\ mpc \in {"readRoot", "skip"} \/ resultsClosed \/ files = <<>>
        /\ \A w \in WorkerIdx : wpc'[w] = "off"
        /\ linkReqs' = <<>>

C14_AlbumsOneAtATime == [](C14_State) /\ [][C14_Step]_vars

\* the second album has two uploads in flight, after the first album ran
\* its pipeline in live mode
C14_Witness ==
    /\ album = 2
    /\ mpc = "consume"
    /\ workerCount = 2
    /\ Cardinality(InFlight) = 2
    /\ tui.globalFiles >= 1

\* ---- C15 ------------------------------------------------------------------
Max(a, b) == IF a >= b THEN a ELSE b

Min(a, b) == IF a <= b THEN a ELSE b

\* C15: once an album's pipeline has been started, for its F >= 1 files and
\* the configured worker count W, zero and negative values included,
\* workerCount and the number of worker goroutines started are both
\* max(1, min(W, F)).
C15_WorkersStarted ==
    mpc \in {"consume", "collected", "link", "albumEnd"} =>
        /\ Len(files) >= 1
        /\ workerCount = Max(1, Min(optWorkers, Len(files)))
        /\ Cardinality(Started) = Max(1, Min(optWorkers, Len(files)))

\* a negative worker count over two files starts one worker
C15_Witness ==
    /\ mpc = "consume"
    /\ optWorkers < 0
    /\ Len(files) = 2
    /\ Cardinality(Started) = 1

\* ---- C16 ------------------------------------------------------------------
\* C16: when createAlbum, ensureIgnoreAlbumDir or the walk fails, the
\* failure is logged once and the album is left with no file list, no
\* worker, no upload, no relocation and no link request; the next step goes
\* to the next entry that is not skipped, or ends the loop; and Run, having
\* given up albums, does not return an error.
C16_State ==
    /\ log.albumFailed >= 1 =>
         /\ mpc = "skip"
         /\ log.albumFailed = 1
         /\ files = <<>>
         /\ \A i \in DOMAIN hist : hist[i] = NoHist /\ fstate[i] = "none"
         /\ linkReqs = <<>>
         /\ ppc = "off"
         /\ \A w \in WorkerIdx : wpc[w] = "off"
    /\ mpc = "skip" => log.albumFailed = 1
    /\ skipped >= 1 => runErr = "none" /\ mpc # "failed"
    /\ mpc = "done" => runErr = "none"

C16_Step ==
    /\ (mpc = "skip" /\ mpc' # mpc) =>
          /\ album' = NextAlbumFrom(album + 1)
          /\ mpc' = IF album' > Len(entries) THEN "done" ELSE "resolve"
          /\ skipped' = skipped + 1
    /\ (mpc \in {"resolve", "mkdir", "scan"} /\ mpc' = "skip") =>
          log'.albumFailed = log.albumFailed + 1

C16_AlbumFailureIsLocal == [](C16_State) /\ [][C16_Step]_vars

\* live mode: Run has returned nil after giving up one album and uploading
\* a file of the other
C16_Witness ==
    /\ mpc = "done"
    /\ runErr = "none"
    /\ skipped = 1
    /\ tui.globalFiles >= 1

\* ---- C17 ------------------------------------------------------------------
\* C17 as claimed: when Run returns the error of a missing key, a missing
\* root or an unreadable root, no request has been sent.
C17_SetupErrorBeforeRequests ==
    runErr \in {"missingKey", "missingRoot", "readRoot"} => ~listSent

\* ---- C18 ------------------------------------------------------------------
\* C18 as claimed: Run returns an error only for a missing key, a missing
\* root or an unreadable root.
C18_Original == runErr \in {"none", "missingKey", "missingRoot", "readRoot"}

\* C18 as amended: Run returns an error only for a missing key, a missing
\* root, a failed list-albums request or an unreadable root, each decided
\* before the album loop starts; once the loop has started Run returns nil,
\* whatever failed for a file, an album, a relocation or a link request.
C18_State ==
    /\ runErr \in {"none", "missingKey", "missingRoot", "listAlbums", "readRoot"}
    /\ runErr # "none" <=> mpc = "failed"
    /\ runErr = "missingKey" => ~optAPIKey
    /\ runErr = "missingRoot" => optAPIKey /\ ~optRoot
    /\ runErr \in {"listAlbums", "readRoot"} => optAPIKey /\ optRoot /\ listSent
    /\ mpc = "failed" =>
         /\ album = 0
         /\ skipped = 0
         /\ tui = NoTui
         /\ log = NoLog
    /\ mpc = "done" => runErr = "none"

C18_Step == runErr' # runErr => mpc \in {"checkOpts", "list", "readRoot"}

C18_OnlySetupFails == [](C18_State) /\ [][C18_Step]_vars

\* live mode: Run has returned nil after an upload failure, a relocation
\* failure and an album given up
C18_Witness ==
    /\ mpc = "done"
    /\ runErr = "none"
    /\ tui.globalFailed >= 1
    /\ tui.globalMovedFail >= 1
    /\ skipped >= 1

\* ---- C19 ------------------------------------------------------------------
\* C19 as claimed, for the fingerprint: a file whose sha1File failed has an
\* error result.
C19_Original ==
    \A i \in DOMAIN hist : (hist[i].sumErr /\ hist[i].nres = 1) => hist[i].resErr

\* C19 as amended: a file's result is an error exactly when its stat failed
\* or its upload failed; that result is counted and logged once, the file
\* stays at its original path and is not offered to moveFileToIgnore, the
\* linked list holds one id per success, and every file of the album has its
\* result once the consumer loop is over.  A failed fingerprint computation
\* is not an error: the upload is still called and alone decides the result.
C19_FailedFileIsLocal ==
    /\ \A i \in DOMAIN hist :
         /\ hist[i].nres = 1 => (hist[i].resErr <=> hist[i].up # "ok")
         /\ Failed(i) => (fstate[i] = "orig" /\ hist[i].mvCalls = 0)
         /\ hist[i].sumErr => hist[i].upCalls = 1
    /\ uploadErrors = Cardinality({i \in DOMAIN hist : Failed(i)})
    /\ log.uploadFailed = Cardinality({i \in DOMAIN hist : Failed(i)})
    /\ PipelineOver =>
         /\ \A i \in FilesOf : hist[i].nres = 1
         /\ Len(uploadedIDs) = Len(files) - uploadErrors

\* the consumer loop is over with a success for a file whose fingerprint
\* failed and an error for a file whose upload failed
C19_Witness ==
    /\ mpc = "collected"
    /\ \E i, j \in FilesOf :
         /\ hist[i].sumErr /\ Succ(i)
         /\ hist[j].up = "fail" /\ Failed(j) /\ fstate[j] = "orig"

\* ---- C20 ------------------------------------------------------------------
\* C20: the album loop is never at an entry named opt.IgnoreDir, nor at an
\* entry that is not a directory: no lookup, scan, upload, relocation or link
\* step is taken for it, and the loop ends having passed it.
C20_IgnoreDirIsNoAlbum ==
    /\ \A k \in DOMAIN entries :
         (entries[k].name = IgnoreDir \/ ~entries[k].isDir) => album # k
    /\ mpc = "done" => album = Len(entries) + 1

\* the first entry is a folder named opt.IgnoreDir and the loop is linking
\* the second entry
C20_Witness ==
    /\ entries[1].name = IgnoreDir
    /\ entries[1].isDir
    /\ album = 2
    /\ mpc = "link"

\* ---- C12 ------------------------------------------------------------------
\* a file-in-use / sharing-violation class error
Transient(e) ==
    \/ e.errno \in {ERROR_SHARING_VIOLATION, ERROR_LOCK_VIOLATION}
    \/ e.errno = 0 /\ e.inUse

\* C12: moveFileToIgnore calls os.Rename at most 10 times; it is about to
\* make attempt k+1 only when attempt k failed with a transient error and
\* the k-th wait, of 150ms x k, is over; it returns nil right after an
\* attempt that succeeded, the error of an attempt that failed otherwise
\* right after that attempt, with no wait, and the last error when all 10
\* attempts failed.
C12_RetryLoop ==
    \A w \in WorkerIdx :
        LET m == mv[w]
        IN  /\ m.tries <= MaxAttempts
            /\ \A k \in DOMAIN m.waits : m.waits[k] = BackoffMs * k
            /\ m.pc = "rename" =>
                 /\ m.tries < MaxAttempts
                 /\ Len(m.waits) = m.tries
                 /\ m.tries >= 1 => (m.lastErr # Nil /\ Transient(m.lastErr))
            /\ m.pc = "sleep" => (Transient(m.lastErr) /\ Len(m.waits) = m.tries - 1)
            /\ (m.pc = "ret" /\ m.tries >= 1) =>
                 \/ m.err = Nil /\ Len(m.waits) = m.tries - 1
                 \/ /\ m.err = m.lastErr /\ m.err # Nil
                    /\ ~Transient(m.err)
                    /\ Len(m.waits) = m.tries - 1
                 \/ /\ m.err = m.lastErr /\ m.err # Nil
                    /\ Transient(m.err)
                    /\ m.tries = MaxAttempts
            /\ (m.pc = "ret" /\ m.tries = 0) => (m.err # Nil /\ m.waits = <<>>)

\* one worker's ten attempts all failed with transient errors and the last
\* one is returned, while the other worker's third attempt succeeded
C12_Witness ==
    \E v, w \in WorkerIdx :
        /\ mv[v].pc = "ret" /\ mv[v].tries = MaxAttempts
        /\ mv[v].err = Err(ERROR_LOCK_VIOLATION, FALSE)
        /\ mv[w].pc = "ret" /\ mv[w].tries = 3 /\ mv[w].err = Nil
        /\ mv[w].waits = <<BackoffMs, 2 * BackoffMs>>

Ancestors(t, k) ==
    {j \in 1..(k - 1) :
        /\ t[j].depth < t[k].depth
        /\ \A i \in (j + 1)..k : t[i].depth > t[j].depth}

\* the nodes whose path is in the file list so far
Enqueued == {wfiles[i] : i \in DOMAIN wfiles}

\* the name filters of walkFn let file node k through
PassesNameTests(k) == ~wtree[k].dir /\ ~wtree[k].dot /\ wtree[k].media

\* C21 as stated: no enqueued file has a name starting with "." and none
\* lies beneath a directory whose name starts with "."
C21_Original ==
    \A k \in Enqueued :
        /\ ~wtree[k].dot
        /\ \A a \in Ancestors(wtree, k) : ~wtree[a].dot

\* C21: no file whose own name starts with "." is enqueued; the name of a
\* directory is not tested: once the walk of an album folder is over, every
\* file that passes the name filters and that the depth rule admits has
\* been enqueued, whether or not a directory above it is dot-prefixed
C21_DotFilesSkipped ==
    /\ \A k \in Enqueued : ~wtree[k].dot
    /\ wstat = "done" =>
         \A k \in DOMAIN wtree :
             (/\ PassesNameTests(k)
              /\ \E a \in Ancestors(wtree, k) : wtree[a].dot
              /\ optDeep \/ wtree[k].depth = 1)
             => k \in Enqueued

\* the walk is over: a dot-prefixed media file was left out, and a file
\* beneath a dot-prefixed subdirectory was enqueued
C21_Witness ==
    /\ wstat = "done"
    /\ \E k \in DOMAIN wtree :
         ~wtree[k].dir /\ wtree[k].dot /\ wtree[k].media /\ k \notin Enqueued
    /\ \E k \in Enqueued :
         \E a \in Ancestors(wtree, k) : a # 1 /\ wtree[a].dot

\* C30: with opt.Deep off the walk never goes below the entries of the album
\* folder and enqueues files of the album folder only; when WalkDir has
\* returned nil, the enqueued files are the files passing the name filters
\* that lie directly in the album folder (opt.Deep off) or at any depth
\* (opt.Deep on)
C30_DepthRule ==
    /\ ~optDeep =>
         /\ wstat = "walking" => wtree[widx].depth <= 1
         /\ \A k \in Enqueued : wtree[k].depth = 1
    /\ wstat = "done" =>
         Enqueued = {k \in DOMAIN wtree :
                       PassesNameTests(k) /\ (optDeep \/ wtree[k].depth = 1)}

\* opt.Deep off, the walk is over: a file directly in the album folder was
\* enqueued and a media file beneath a subdirectory was not
C30_Witness ==
    /\ wstat = "done"
    /\ ~optDeep
    /\ \E k \in Enqueued : wtree[k].depth = 1
    /\ \E k \in DOMAIN wtree :
         PassesNameTests(k) /\ wtree[k].depth > 1 /\ k \notin Enqueued

\* ---- C22: smallest-first dispatch order -------------------------------------

\* a is before b in ascending order of size, ties broken by path
SizeThenPath(a, b) ==
    \/ finfo[a].size < finfo[b].size
    \/ finfo[a].size = finfo[b].size /\ finfo[a].rank < finfo[b].rank

\* the same order among the files whose size could be read when the list
\* was sorted; the others after them, in path order
ReadableFirst(a, b) ==
    IF hist[a].sortErr # hist[b].sortErr THEN hist[b].sortErr
    ELSE IF hist[a].sortErr THEN finfo[a].rank < finfo[b].rank
    ELSE SizeThenPath(a, b)

\* this step hands the job of file b to a worker
DispatchedNow(b) == hist[b].dispatched = 0 /\ hist'[b].dispatched = 1

\* the job of file a has been handed to a worker, or the producer has sent
\* the error result of a instead of a job
JobSettled(a) == hist[a].dispatched = 1 \/ hist[a].nres = 1

C23_Original == ~isTTY => ~tuiEnabled

\* C23: the mode is one of live and quiet, it never changes during the run
\* and in quiet mode the counters of the status line are never touched;
\* with opt.TUIAuto the mode is live exactly when stdout is a terminal, and
\* without opt.TUIAuto it is what opt.TUI says, terminal or not
C23_ModeSelectedOnce ==
    /\ tuiEnabled \in BOOLEAN
    /\ optTUIAuto => (tuiEnabled <=> isTTY)
    /\ ~optTUIAuto => (tuiEnabled <=> optTUI)
    /\ [][/\ tuiEnabled' = tuiEnabled
          /\ ~tuiEnabled => tui' = tui]_vars

\* live mode without a terminal: opt.TUI on, opt.TUIAuto off, and the
\* counters of the status line have been updated
C23_Witness ==
    /\ ~isTTY
    /\ optTUI /\ ~optTUIAuto
    /\ tuiEnabled
    /\ tui.globalFiles > 0

\* ---- C24, C25: the counters of the status line ------------------------------

\* the counters of tuiState that span the run
GlobalCounters ==
    {"globalAlbums", "globalFiles", "globalDup", "globalFailed", "globalMovedFail",
     "globalBytes"}

\* C24: no step of the run, of whichever goroutine, decreases a global
\* progress counter
C24_GlobalCountersMonotone ==
    [][\A c \in GlobalCounters : tui'[c] >= tui[c]]_vars

\* live mode, second album: the counters carry what the first album added
\* (uploaded files, their bytes, a failure, a relocation failure) and a
\* file of the second album has been counted on top
C24_Witness ==
    /\ tuiEnabled
    /\ album = 2
    /\ tui.globalFiles >= 2
    /\ tui.globalBytes >= 2
    /\ tui.globalFailed >= 1
    /\ tui.globalMovedFail >= 1
    /\ completed >= 1

\* the sum of the sizes of the album's files
RECURSIVE SizeSum(_)
SizeSum(fs) == IF fs = <<>> THEN 0 ELSE finfo[Head(fs)].size + SizeSum(Tail(fs))

\* C25: in live mode, when the pipeline of an album has just been started
\* (no result received yet), files-done and bytes-done are 0 and album
\* name, files-total and bytes-total are those of that album
C25_PerAlbumCountersReset ==
    (tuiEnabled /\ mpc = "consume" /\ completed = 0) =>
        /\ tui.albumDone = 0
        /\ tui.albumBytes = 0
        /\ tui.albumName = entries[album].name
        /\ tui.albumTotal = Len(files)
        /\ tui.albumTotalBytes = SizeSum(files)

\* ---- C26: the accesses of tui and its lock -----------------------------------

\* goroutine g is at a read or a write of a field of tui
Accessing(g) == lk[g] # OutOfSection /\ AtStatement(g).op \in {"read", "write"}

\* goroutine g is blocked in tui.Lock()
WaitingForLock(g) ==
    lk[g] # OutOfSection /\ AtStatement(g).op = "lock" /\ tuiLock # NoG

\* C26: a goroutine that is at a read or a write of a field of tui holds
\* tui's lock, so no two goroutines are at such an access at the same time
C26_AccessUnderLock ==
    /\ \A g \in Goroutines : Accessing(g) => tuiLock = g
    /\ \A g, h \in Goroutines : (Accessing(g) /\ Accessing(h)) => g = h

\* the consumer is writing tui.albumBytes while a worker that wants to count
\* a failed relocation and the ticker that wants to render wait for the lock
C26_Witness ==
    /\ lk[<<"main", 0>>].site = "progress"
    /\ Accessing(<<"main", 0>>)
    /\ AtStatement(<<"main", 0>>).field = "albumBytes"
    /\ \E w \in WorkerIdx :
         lk[<<"worker", w>>].site = "movedFail" /\ WaitingForLock(<<"worker", w>>)
    /\ WaitingForLock(<<"ticker", 0>>)

\* ---- C27: the order of the steps of one file --------------------------------

\* the step, if it moves worker w, moves it along the loop body: the job is
\* received, then stat, then identity, fingerprint and the upload call, then
\* the return of the upload, then (after a success only) the relocation,
\* then the result
WorkerOrder(w) ==
    LET f == wjob[w]
    IN  wpc'[w] # wpc[w] =>
          CASE wpc'[w] = "stat" -> wpc[w] = "recv" /\ hist'[wjob'[w]].upCalls = 0
            [] wpc'[w] = "upload" -> wpc[w] = "stat"
            [] wpc'[w] = "uploading" ->
                 /\ wpc[w] = "upload"
                 /\ hist[f].up = "none"
                 /\ hist'[f].upCalls = 1
                 /\ hist'[f].sumErr => optChecksum
            [] wpc'[w] = "move" -> wpc[w] = "uploading" /\ hist'[f].up = "ok"
            [] wpc'[w] = "send" ->
                 \/ wpc[w] = "stat" /\ hist[f].upCalls = 0
                 \/ wpc[w] = "uploading" /\ hist'[f].up = "fail"
                 \/ wpc[w] = "move" /\ hist'[f].mvCalls = 1
            [] wpc'[w] = "recv" -> wpc[w] \in {"off", "send"}
            [] OTHER -> TRUE

\* C27: each worker takes its file through stat, identity, fingerprint,
\* upload, relocation and result in that order; the relocation of a file
\* is attempted only once its upload has returned success, and the result of
\* a file whose upload succeeded is received only once the relocation
\* attempt is over
C27_StepOrder ==
    [][/\ \A w \in WorkerIdx : WorkerOrder(w)
       /\ \A f \in FilesOf :
            /\ hist'[f].mvCalls > hist[f].mvCalls =>
                 hist[f].up = "ok" /\ hist[f].nres = 0
            /\ (hist'[f].nres > hist[f].nres /\ hist[f].up = "ok") =>
                 hist[f].mvCalls = 1]_vars

\* fingerprinting on, two workers: the file dispatched second has been
\* uploaded, relocated and its result received while the file dispatched
\* first is still before the return of its upload
C27_Witness ==
    /\ optChecksum
    /\ Len(files) = 2
    /\ Succ(files[2]) /\ hist[files[2]].mvCalls = 1
    /\ \E w \in WorkerIdx :
         wjob[w] = files[1] /\ wpc[w] \in {"stat", "upload", "uploading"}

\* ---- C28 --------------------------------------------------------------------

\* the folder the loop body is at
FolderName == entries[album].name

\* the step is the resolution of the album of the current folder
ResolveStep == mpc = "resolve" /\ mpc' # "resolve"

\* the list request has been answered and Run went on
PastList == mpc \notin {"checkOpts", "list", "failed"}

\* C28: the list-albums request is sent at most once, and exactly once in
\* every run that goes on to the folders; at the resolution of a folder a
\* create-album request is sent if and only if the index has no entry under
\* exactly the folder's name, and it is sent for that name; a name that is
\* in the index gets the indexed id and leaves the index alone; a created
\* album gets an id that is put into the index under the folder's name;
\* create requests are sent at no other step; and an entry of the index is
\* never removed or changed
C28_AlbumIndex ==
    /\ [](listReqs <= 1)
    /\ [](PastList => listReqs = 1)
    /\ [][/\ listReqs' >= listReqs
          /\ \A k \in AlbumKeys : albums[k] # NoAlbum => albums'[k] = albums[k]
          /\ ~ResolveStep => createReqs' = createReqs
          /\ ResolveStep =>
               IF albums[FolderName] = NoAlbum
               THEN /\ createReqs' = Append(createReqs, FolderName)
                    /\ \A k \in AlbumKeys \ {FolderName} : albums'[k] = albums[k]
                    /\ IF mpc' = "skip"
                       THEN albums' = albums
                       ELSE albumID' # NoAlbum /\ albums'[FolderName] = albumID'
               ELSE /\ createReqs' = createReqs
                    /\ albums' = albums
                    /\ albumID' = albums[FolderName]
                    /\ mpc' # "skip"]_vars

\* the server had the album of the second folder and an album named like
\* the first folder in upper case: the first album was created, the second
\* one reused, and both are in the index next to the upper-case one
C28_Witness ==
    /\ Len(entries) >= 2
    /\ remoteAlbums = {UpperOf(entries[1].name), entries[2].name}
    /\ album = 2
    /\ mpc = "mkdir"
    /\ listReqs = 1
    /\ createReqs = <<entries[1].name>>
    /\ albumID = albums[entries[2].name]
    /\ albums[entries[2].name] = ListedId(entries[2].name)
    /\ albums[entries[1].name] = CreatedId(entries[1].name)
    /\ albums[UpperOf(entries[1].name)] = ListedId(UpperOf(entries[1].name))

\* ---- C29 --------------------------------------------------------------------

\* the step hands a result to the consumer
ResultSent == \E f \in FileIdx : hist'[f].nres > hist[f].nres

\* the step hands a job to a worker
JobSent == \E f \in FileIdx : hist'[f].dispatched > hist[f].dispatched

\* every started worker has returned and the WaitGroup is at zero
AllWorkersExited ==
    /\ wg = 0
    /\ \A w \in WorkerIdx : wpc[w] \in {"off", "exit"}

\* C29: results is closed by the producer's close statement only, with the
\* producer past its last send and every worker returned; once closed it
\* stays closed until the next album makes a new channel, and the consumer
\* leaves its loop only on the closed channel, so each album's results is
\* closed exactly once; while results is closed no goroutine is at or
\* before a send on it, while jobs is closed the producer is past its
\* sends, and no result or job is handed over on a closed channel
C29_CloseAfterJoin ==
    /\ [](resultsClosed => jobsClosed /\ ppc = "done" /\ AllWorkersExited)
    /\ [](jobsClosed => ppc \in {"wait", "closeResults", "done"})
    /\ [](PipelineOver /\ files # <<>> => resultsClosed)
    /\ [][/\ (~resultsClosed /\ resultsClosed') =>
               /\ ppc = "closeResults" /\ ppc' = "done"
               /\ pidx > Len(files)
               /\ AllWorkersExited
          /\ (resultsClosed /\ ~resultsClosed') => mpc' # mpc
          /\ (resultsClosed /\ resultsClosed') => ppc' = ppc
          /\ ResultSent => ~resultsClosed /\ ~resultsClosed'
          /\ JobSent => ~jobsClosed /\ ~jobsClosed']_vars

\* results has just been closed and the consumer has not yet seen it: two
\* workers ran, one file's result came from a worker, the other one's from
\* the producer
C29_Witness ==
    /\ mpc = "consume"
    /\ resultsClosed
    /\ workerCount >= 2
    /\ \E f, g \in FileIdx :
         /\ hist[f].dispatched = 1 /\ hist[f].nres = 1
         /\ hist[g].dispatched = 0 /\ hist[g].nres = 1

\* ---- C31 --------------------------------------------------------------------

\* C31: with a batch size of zero or less the link loop ranges over one
\* chunk, the whole list of collected ids, which is not empty; every step of
\* the loop moves on to the next chunk, so the loop is over after one step;
\* when it is over exactly one link request has been sent, with all the ids
C31_OneRequestForAll ==
    /\ [](optBatchSize <= 0 /\ mpc \in {"link", "albumEnd"} =>
            /\ chunks = <<uploadedIDs>>
            /\ Len(uploadedIDs) >= 1
            /\ lidx \in 1..2
            /\ Len(linkReqs) = lidx - 1
            /\ \A k \in DOMAIN linkReqs : linkReqs[k].ids = uploadedIDs)
    /\ [](optBatchSize <= 0 /\ mpc = "albumEnd" => Len(linkReqs) = 1)
    /\ [][optBatchSize <= 0 /\ mpc = "link" /\ cancelled' = cancelled =>
            \/ mpc' = "link" /\ lidx = 1 /\ lidx' = 2
            \/ mpc' = "albumEnd" /\ lidx = 2]_vars

\* three ids were collected with a negative batch size and the loop is over
\* after its one request
C31_Witness ==
    /\ optBatchSize < 0
    /\ mpc = "albumEnd"
    /\ Len(uploadedIDs) = 3
    /\ Len(linkReqs) = 1
    /\ Len(linkReqs[1].ids) = 3

\* ---- C32 --------------------------------------------------------------------

\* the album of the current folder is resolved: it has an id, the one the
\* index holds under the folder's name
Resolved == albumID # NoAlbum /\ albums[FolderName] = albumID

\* nothing of the current folder has been found, uploaded or linked
NothingDone ==
    /\ files = <<>>
    /\ \A f \in FileIdx : hist[f] = NoHist
    /\ linkReqs = <<>>

\* C32: the parking directory of a folder is made only once its album is
\* resolved, and the folder is scanned only once both are done: until the
\* scan nothing of the folder has been found or uploaded; a folder whose
\* scan finds no media file has its album in the index (created if the
\* server did not list it) and its parking directory made, no upload and no
\* link request was made for it, and the loop goes on to the next entry
C32_SetupBeforeScan ==
    /\ [](mpc = "resolve" => albumID = NoAlbum /\ FolderName \notin ignoreDirs /\ NothingDone)
    /\ [](mpc = "mkdir" => Resolved /\ FolderName \notin ignoreDirs /\ NothingDone)
    /\ [](mpc \in {"scan", "noMedia"} => Resolved /\ FolderName \in ignoreDirs /\ NothingDone)
    /\ [](mpc \in {"spawn", "consume", "collected", "link", "albumEnd"} =>
            Resolved /\ FolderName \in ignoreDirs /\ files # <<>>)
    /\ [](mpc = "noMedia" /\ FolderName \notin remoteAlbums =>
            \E k \in DOMAIN createReqs : createReqs[k] = FolderName)
    /\ [][mpc = "noMedia" /\ mpc' # mpc =>
            /\ mpc' \in {"resolve", "done"}
            /\ skipped' = skipped
            /\ albums' = albums
            /\ ignoreDirs' = ignoreDirs]_vars

\* the first folder, which the server did not know, had no media file: its
\* album was created and its parking directory made
C32_Witness ==
    /\ mpc = "noMedia"
    /\ album = 1
    /\ FolderName \notin remoteAlbums
    /\ createReqs = <<FolderName>>
    /\ albums[FolderName] = CreatedId(FolderName)
    /\ ignoreDirs = {FolderName}
    /\ NothingDone

\* ---- C33 --------------------------------------------------------------------

\* the step sends a link request
LinkSent == Len(linkReqs') > Len(linkReqs)

\* no worker is inside an upload or a relocation, and every file of the
\* album has had its one result received
UploadsAndMovesOver ==
    /\ \A w \in WorkerIdx : wpc[w] \in {"off", "exit"}
    /\ \A f \in FilesOf : hist[f].nres = 1
    /\ \A f \in FilesOf : hist[f].upCalls >= 1 => hist[f].up \in {"ok", "fail"}

\* C33: a link request is sent only with the album's results closed, every
\* worker returned and every file's result received; and from the first
\* link request of an album on, no upload or relocation attempt is made for
\* the album and no file of it changes place
C33_LinkAfterClose ==
    /\ [][LinkSent => resultsClosed /\ UploadsAndMovesOver /\ mpc = "link"]_vars
    /\ [][linkReqs' # <<>> => hist' = hist /\ fstate' = fstate /\ resultsClosed']_vars

\* the first link request of an album is sent after two workers ran: one
\* file was uploaded and relocated, the other one's upload failed
C33_Witness ==
    /\ mpc = "link"
    /\ Len(linkReqs) = 1
    /\ workerCount = 2
    /\ \E f, g \in FilesOf :
         /\ hist[f].up = "ok" /\ hist[f].mvCalls = 1
         /\ hist[g].up = "fail" /\ hist[g].resErr

\* ---- C34 --------------------------------------------------------------------

\* no upload of the current album has returned success
NoUploadSucceeded == \A f \in FilesOf : hist[f].up # "ok"

\* C34: the link stage of an album is entered, and a link request is sent,
\* only if an upload of the album succeeded; when the consumer loop of an
\* album without a successful upload is over, the loop goes on to the next
\* entry, or ends past the last one, without an error and without counting
\* the album as given up
C34_NoSuccessNoLink ==
    /\ [](mpc \in {"link", "albumEnd"} => ~NoUploadSucceeded)
    /\ [](NoUploadSucceeded => linkReqs = <<>>)
    /\ [][mpc = "collected" /\ NoUploadSucceeded /\ mpc' # mpc =>
            /\ mpc' \in {"resolve", "done"}
            /\ album' > album
            /\ runErr' = "none"
            /\ skipped' = skipped
            /\ linkReqs' = <<>>]_vars

\* the loop is at the second folder after the first one's files all failed:
\* in live mode the counters show failures and no upload
C34_Witness ==
    /\ album = 2
    /\ mpc = "resolve"
    /\ runErr = "none"
    /\ skipped = 0
    /\ tuiEnabled
    /\ tui.globalFailed = 2
    /\ tui.globalFiles = 0

\* ---- C35 --------------------------------------------------------------------

\* every file of the current album has had exactly one result received
OneResultEach == \A f \in FilesOf : hist[f].nres = 1

\* C35: under fair scheduling a pipeline running with ctx done still
\* reaches the end of the consumer loop; no file ever has more than one
\* result received, a received result is never taken back while the album
\* lasts, and when the consumer loop of a cancelled run is over results is
\* closed and every file of the album has had exactly one result received
C35_CancelKeepsResults ==
    /\ (cancelled /\ mpc = "consume") ~> (cancelled /\ mpc = "collected")
    /\ [](\A f \in FileIdx : hist[f].nres <= 1)
    /\ [](cancelled /\ PipelineOver => resultsClosed /\ OneResultEach)
    /\ [][cancelled /\ album' = album /\ mpc' \notin {"resolve", "done"} =>
            \A f \in FileIdx : hist'[f].nres >= hist[f].nres]_vars

\* the consumer loop is over in a run cancelled while two workers were at
\* work: a file dispatched before the cancellation and one dispatched after
\* it have both had their result received
C35_Witness ==
    /\ cancelled
    /\ mpc = "collected"
    /\ workerCount = 2
    /\ resultsClosed
    /\ \E f, g \in FilesOf :
         /\ hist[f].dispatched = 1 /\ ~hist[f].late /\ hist[f].nres = 1
         /\ hist[g].dispatched = 1 /\ hist[g].late /\ hist[g].nres = 1

\* ---- C36 --------------------------------------------------------------------

\* goroutine g is at a statement that can block: a channel operation or
\* tui.Lock()
AtBlockingStatement(g) ==
    lk[g] # OutOfSection /\ AtStatement(g).op \in {"send", "recv", "lock"}

\* C36: the goroutine that holds tui's lock is never at a channel send or
\* receive and never at tui.Lock() again, whether it got there through
\* eventf, renderLine or its own counting; so the holder can always go on
\* to its tui.Unlock(), and a goroutine waiting for the lock waits for a
\* holder that is not waiting for anything
C36_LockHolderNeverBlocks ==
    /\ \A g \in Goroutines : tuiLock = g => ~AtBlockingStatement(g)
    /\ \A g \in Goroutines : WaitingForLock(g) => ~AtBlockingStatement(tuiLock)
    /\ tuiLock # NoG => lk[tuiLock] # OutOfSection

\* the ticker holds the lock inside renderLine while a worker is blocked in
\* the send of its result, the consumer being blocked in tui.Lock() on its
\* way to count a success
C36_Witness ==
    /\ tuiLock = <<"ticker", 0>>
    /\ lk[<<"main", 0>>].site = "counted"
    /\ WaitingForLock(<<"main", 0>>)
    /\ \E w \in WorkerIdx :
         lk[<<"worker", w>>].site = "send" /\ AtBlockingStatement(<<"worker", w>>)

\* ---- C37 --------------------------------------------------------------------

\* Run has returned
Returned == mpc \in {"done", "failed"}

\* C37: the ticker goroutine is started only in live mode, when the root has
\* been read; it returns only with ctx done, and with ctx done it returns at
\* some point; the return of Run does not end it: while ctx is not done it
\* is still in its loop after Run has returned, and goes on rendering
C37_TickerStopsOnCancelOnly ==
    /\ [](tkpc # "off" => tuiEnabled)
    /\ [](tkpc = "stopped" => cancelled)
    /\ [](tuiEnabled /\ ~cancelled /\ mpc \notin {"checkOpts", "list", "readRoot", "failed"} =>
            tkpc = "select" /\ ENABLED Tick)
    /\ [][tkpc = "select" /\ tkpc' # "select" => cancelled /\ tkpc' = "stopped"]_vars
    /\ [][ticks' > ticks => Returned /\ tkpc = "select"]_vars
    /\ (cancelled /\ tkpc = "select") ~> (tkpc = "stopped")

\* Run has returned nil with ctx never done, and the ticker has rendered
\* MaxTicks times since and is still in its loop
C37_Witness ==
    /\ mpc = "done"
    /\ runErr = "none"
    /\ ~cancelled
    /\ tkpc = "select"
    /\ ticks = MaxTicks

\* ---- C38 --------------------------------------------------------------------

\* worker w holds a success result
HoldsSuccess(w) == wjob[w] # 0 /\ ~wres[w].err /\ wres[w].id # 0

\* the step hands the success result of worker w to the consumer
SuccessReceived(w) == wpc[w] = "send" /\ wpc'[w] = "recv" /\ HoldsSuccess(w)

====
